---- MODULE Spec2Model ----
(***************************************************************************)
(* A model of the on-disk repository engine of libostree/ostree-repo.c:    *)
(* the loose-object store (lookup through the staging directory, the main  *)
(* objects directory and the parent repo; delete; import between repos)    *)
(* and the remotes registry.                                               *)
(***************************************************************************)
EXTENDS Integers, Sequences, FiniteSets, TLC

VARIABLES
  mode,                \* self->mode, per repo handle
  parent_repo,         \* self->parent_repo, per repo handle (NULL when none)
  owner_uid,           \* self->owner_uid, per repo handle
  tombstone_commits,   \* core/tombstone-commits of self->config
  commit_stagedir_fd,  \* self->commit_stagedir_fd (-1 when no transaction)
  objects_dir,         \* the loose paths under self->objects_dir_fd
  stage_dir,           \* the loose paths under self->commit_stagedir_fd
  written,             \* history: objects written and not deleted since
  last,                \* the last library call and what it returned
  obj,                 \* the <<objtype, checksum>> the calls are made on
  remotes,             \* self->remotes: name -> where the remote is persisted
  config_remotes,      \* the remote groups of the repo's config file
  remotes_d,           \* the <name>.conf files of the repo's remotes.d
  remotes_d_dir,       \* whether get_remotes_d_dir gives the repo a remotes.d
  remote_options,      \* remote->options of each remote of self->remotes: its url
  group_options,       \* the url of each persisted remote group
  rl,                  \* the ostree_repo_remote_list call: position and result
  inited,              \* self->inited, per repo handle
  writable,            \* self->writable
  writable_error,      \* self->writable_error ("none" when NULL)
  config,              \* self->config: the core group of the key file in memory
  dir_fds,             \* self->repo_dir_fd, objects_dir_fd and tmp_dir_fd
  disk,                \* the repo directory on disk: config file, state
                       \* directories, whether objects/ is writable
  user_xattrs,         \* whether the file system takes user.* xattrs
  disable_fsync,       \* self->disable_fsync
  dirmeta_cache,       \* self->dirmeta_cache: NULL or the checksums cached
  dirmeta_cache_refcount, \* self->dirmeta_cache_refcount
  cache_lock,          \* self->cache_lock: the thread that holds it
  cache_refs,          \* the OstreeRepoMemoryCacheRef objects initialized
  threads,             \* where each thread is in its call on the cache
  tmp_dirs,            \* the directories under tmp/
  lock_holder,         \* per directory name: who holds flock on <name>-lock
  procs,               \* where each process is in _ostree_repo_allocate_tmpdir
  ref_store,           \* core/collection-id and the refs under refs/ of repo A
  summary,             \* the file summary of repo A
  summary_sig,         \* the file summary.sig of repo A
  commitmeta,          \* the detached metadata of the commit obj in repo A
  sign_last,           \* the last signing or summary call and its result
  po,                  \* the ostree_repo_open of a new handle and of its parents
  keyrings,            \* per repo: the remotes whose keyring file is next to
                       \* the repo, and those whose keyring file is in remotes.d
  remotes_lock,        \* self->remotes_lock of repo A: the thread that holds it
  rt                   \* where each thread is in its call on the remotes of A

storeVars == <<mode, parent_repo, owner_uid, tombstone_commits,
               commit_stagedir_fd, objects_dir, stage_dir, written>>
remoteVars == <<remotes, config_remotes, remotes_d, remotes_d_dir,
                remote_options, group_options, rl>>
cacheVars == <<dirmeta_cache, dirmeta_cache_refcount, cache_lock, cache_refs,
               threads>>
stagingVars == <<tmp_dirs, lock_holder, procs>>
signVars == <<ref_store, summary, summary_sig, commitmeta, sign_last>>
parentVars == <<po>>
keyVars == <<keyrings>>
regVars == <<remotes_lock, rt>>
otherVars == <<cacheVars, stagingVars, signVars, parentVars, keyVars, regVars>>
\* All of them but one
notCacheVars == <<stagingVars, signVars, parentVars, keyVars, regVars>>
notStagingVars == <<cacheVars, signVars, parentVars, keyVars, regVars>>
notSignVars == <<cacheVars, stagingVars, parentVars, keyVars, regVars>>
notParentVars == <<cacheVars, stagingVars, signVars, keyVars, regVars>>
notKeyVars == <<cacheVars, stagingVars, signVars, parentVars, regVars>>
notRegVars == <<cacheVars, stagingVars, signVars, parentVars, keyVars>>
handleVars == <<inited, writable, writable_error, config, dir_fds, disk,
                user_xattrs, disable_fsync>>
vars == <<mode, parent_repo, owner_uid, tombstone_commits,
          commit_stagedir_fd, objects_dir, stage_dir, written, last, obj,
          remotes, config_remotes, remotes_d, remotes_d_dir,
          remote_options, group_options, rl,
          inited, writable, writable_error, config, dir_fds, disk, user_xattrs,
          disable_fsync,
          dirmeta_cache, dirmeta_cache_refcount, cache_lock, cache_refs, threads,
          tmp_dirs, lock_holder, procs,
          ref_store, summary, summary_sig, commitmeta, sign_last, po, keyrings,
          remotes_lock, rt>>

----------------------------------------------------------------------------
(* Repo handles, modes and object types                                    *)

Repos == {"A", "B", "C"}
NULL == "NULL"

MODE_BARE == "bare"
MODE_BARE_USER == "bare-user"
MODE_BARE_USER_ONLY == "bare-user-only"
MODE_ARCHIVE_Z2 == "archive-z2"
Modes == {MODE_BARE, MODE_BARE_USER, MODE_BARE_USER_ONLY, MODE_ARCHIVE_Z2}

FILE == "file"
DIR_TREE == "dirtree"
DIR_META == "dirmeta"
COMMIT == "commit"
TOMBSTONE_COMMIT == "commit-tombstone"
COMMIT_META == "commitmeta"
ObjTypes == {FILE, DIR_TREE, DIR_META, COMMIT, TOMBSTONE_COMMIT, COMMIT_META}

\* OSTREE_OBJECT_TYPE_IS_META
IS_META(objtype) == objtype # FILE

\* self->commit_stagedir_fd when no staging directory is open
NoFd == -1
\* The descriptor of an open staging directory
StageFd == 7

\* Checksums of the objects in play, and what each file object is.
CsumReg == "aa"
CsumLnk == "bb"
Checksums == {CsumReg, CsumLnk}
S_IFREG == "S_IFREG"
S_IFLNK == "S_IFLNK"
FileType(checksum) == IF checksum = CsumLnk THEN S_IFLNK ELSE S_IFREG

\* _ostree_loose_path: objects/XX/YYYY.EXT with EXT by type and mode
_ostree_loose_path(checksum, objtype, m) ==
  IF objtype = FILE
  THEN <<checksum, IF m = MODE_ARCHIVE_Z2 THEN "filez" ELSE "file">>
  ELSE <<checksum, objtype>>

\* What fstatat(AT_SYMLINK_NOFOLLOW) reports for a file object stored in a
\* repo of mode m: bare and bare-user-only keep symlinks as symlinks,
\* bare-user and archive-z2 keep every object as a regular file.
DiskType(m, checksum) ==
  IF m \in {MODE_BARE, MODE_BARE_USER_ONLY} THEN FileType(checksum) ELSE S_IFREG

----------------------------------------------------------------------------
(* Reads: existence, metadata load, file load, size query                  *)

NotFound == [ret |-> "not_found", repo |-> NULL, dir |-> "none", st_mode |-> "none"]
Found(self, dir, st) == [ret |-> "ok", repo |-> self, dir |-> dir, st_mode |-> st]

InObjects(self, path) == path \in objects_dir[self]
InStage(self, path) == commit_stagedir_fd[self] # NoFd /\ path \in stage_dir[self]

\* Faulty variant: the loose lookup forgets the staging directory.
Mut_has_loose_object_objects_only(self, checksum, objtype) ==
  LET path == _ostree_loose_path(checksum, objtype, mode[self])
  IN  IF path \in objects_dir[self]
      THEN [ret |-> "ok", repo |-> self, dir |-> "objects", st_mode |-> "none"]
      ELSE NotFound

\* _ostree_repo_has_loose_object: dfd_searches = { stagedir, objects }
has_loose_object(self, checksum, objtype) ==
  LET path == _ostree_loose_path(checksum, objtype, mode[self])
  IN  IF InStage(self, path) THEN Found(self, "stage", "none")
      ELSE IF InObjects(self, path) THEN Found(self, "objects", "none")
      ELSE NotFound

\* ostree_repo_has_object: the loose lookup, then the parent repo
RECURSIVE has_object(_, _, _)
has_object(self, objtype, checksum) ==
  LET ret_have_object == has_loose_object(self, checksum, objtype).ret = "ok"
  IN  IF ~ret_have_object /\ parent_repo[self] # NULL
      THEN has_object(parent_repo[self], objtype, checksum)
      ELSE ret_have_object

\* The openat/fstatat probes shared by the loaders and the size query:
\* objects_dir_fd first, then commit_stagedir_fd when it is open.
\* Faulty variant: the loaders forget the staging directory.
Mut_ProbeObjectsOnly(self, path, st) ==
  IF path \in objects_dir[self] THEN Found(self, "objects", st) ELSE NotFound

\* Faulty variant: the loaders look into the staging directory first.
Mut_ProbeStageFirst(self, path, st) ==
  IF commit_stagedir_fd[self] # NoFd /\ path \in stage_dir[self]
  THEN Found(self, "stage", st)
  ELSE IF path \in objects_dir[self] THEN Found(self, "objects", st)
  ELSE NotFound

ProbeObjectsThenStage(self, path, st) ==
  IF InObjects(self, path) THEN Found(self, "objects", st)
  ELSE IF InStage(self, path) THEN Found(self, "stage", st)
  ELSE NotFound

\* load_metadata_internal with out_variant set (ostree_repo_load_variant and
\* ostree_repo_load_variant_if_exists); "ok_null" is success with no variant.
\* The parent is asked through ostree_repo_load_variant.
RECURSIVE load_metadata_internal(_, _, _, _)
load_metadata_internal(self, objtype, checksum, error_if_not_found) ==
  LET path == _ostree_loose_path(checksum, objtype, mode[self])
      fd == ProbeObjectsThenStage(self, path, "none")
  IN  IF fd.ret = "ok" THEN fd
      ELSE IF parent_repo[self] # NULL
           THEN load_metadata_internal(parent_repo[self], objtype, checksum, TRUE)
      ELSE IF error_if_not_found THEN NotFound
      ELSE [NotFound EXCEPT !.ret = "ok_null"]

ostree_repo_load_variant(self, objtype, checksum) ==
  load_metadata_internal(self, objtype, checksum, TRUE)

ostree_repo_load_variant_if_exists(self, objtype, checksum) ==
  load_metadata_internal(self, objtype, checksum, FALSE)

\* _ostree_repo_load_file_bare: st_mode is the stat after the bare-user
\* overlay of user.ostreemeta; a repo that is none of the three bare modes
\* reaches g_assert (self->mode == OSTREE_REPO_MODE_BARE) and aborts.
RECURSIVE load_file_bare(_, _)
load_file_bare(self, checksum) ==
  IF self = NULL THEN NotFound
  ELSE LET path == _ostree_loose_path(checksum, FILE, mode[self])
           st == ProbeObjectsThenStage(self, path, DiskType(mode[self], checksum))
       IN  IF st.ret # "ok" THEN load_file_bare(parent_repo[self], checksum)
           ELSE IF mode[self] = MODE_BARE_USER
                THEN [st EXCEPT !.st_mode = FileType(checksum)]
           ELSE IF mode[self] = MODE_BARE_USER_ONLY THEN st
           ELSE IF mode[self] = MODE_BARE THEN st
           ELSE [st EXCEPT !.ret = "abort"]

\* repo_load_file_archive and ostree_repo_load_file, mutually recursive
\* through the parent repo.
RECURSIVE ostree_repo_load_file(_, _)
repo_load_file_archive(self, checksum) ==
  LET path == _ostree_loose_path(checksum, FILE, mode[self])
      fd == ProbeObjectsThenStage(self, path, FileType(checksum))
  IN  IF fd.ret = "ok" THEN fd
      ELSE IF parent_repo[self] # NULL
           THEN ostree_repo_load_file(parent_repo[self], checksum)
      ELSE NotFound

ostree_repo_load_file(self, checksum) ==
  IF mode[self] = MODE_ARCHIVE_Z2
  THEN repo_load_file_archive(self, checksum)
  ELSE load_file_bare(self, checksum)

\* load(D,K) of the public API: load_variant for metadata, load_file for content
Load(self, objtype, checksum) ==
  IF IS_META(objtype) THEN ostree_repo_load_variant(self, objtype, checksum)
  ELSE ostree_repo_load_file(self, checksum)

\* ostree_repo_query_object_storage_size: no parent lookup
query_object_storage_size(self, objtype, checksum) ==
  ProbeObjectsThenStage(self, _ostree_loose_path(checksum, objtype, mode[self]), "none")

----------------------------------------------------------------------------
(* Transactions and writes (ostree-repo-commit.c)                          *)

Call(op, self, source, objtype, checksum, ret, via) ==
  [op |-> op, self |-> self, source |-> source, objtype |-> objtype,
   checksum |-> checksum, ret |-> ret, via |-> via, trusted |-> FALSE,
   tombstone |-> "none", name |-> <<>>, value |-> "none"]

\* Where a loose write of (checksum, objtype) lands: nowhere when the object
\* is already stored, the staging directory during a transaction, else the
\* main objects directory.
WriteDest(self, checksum, objtype) ==
  IF has_loose_object(self, checksum, objtype).ret = "ok" THEN "none"
  ELSE IF commit_stagedir_fd[self] # NoFd THEN "stage"
  ELSE "objects"

\* ostree_repo_write_commit_detached_metadata replaces the commitmeta file
DetachedDest(self) ==
  IF commit_stagedir_fd[self] # NoFd THEN "stage" ELSE "objects"

\* ostree_repo_read_commit_detached_metadata: staging, objects, then parent
RECURSIVE read_commit_detached_metadata(_, _)
read_commit_detached_metadata(self, checksum) ==
  LET path == _ostree_loose_path(checksum, COMMIT_META, mode[self])
  IN  IF InStage(self, path) THEN Found(self, "stage", "none")
      ELSE IF InObjects(self, path) THEN Found(self, "objects", "none")
      ELSE IF parent_repo[self] # NULL
           THEN read_commit_detached_metadata(parent_repo[self], checksum)
      ELSE [NotFound EXCEPT !.ret = "ok_null"]

\* The paths an operation adds to one directory of self
Added(dest, dir, paths) == IF dest = dir THEN paths ELSE {}

prepare_transaction(self) ==
  /\ commit_stagedir_fd[self] = NoFd
  /\ commit_stagedir_fd' = [commit_stagedir_fd EXCEPT ![self] = StageFd]
  /\ stage_dir' = [stage_dir EXCEPT ![self] = {}]
  /\ last' = Call("prepare_transaction", self, NULL, "none", "none", "ok", "none")
  /\ UNCHANGED <<mode, parent_repo, owner_uid, tombstone_commits, objects_dir, written>>
  /\ UNCHANGED <<obj, otherVars, remoteVars, handleVars>>

commit_transaction(self) ==
  /\ commit_stagedir_fd[self] # NoFd
  /\ objects_dir' = [objects_dir EXCEPT ![self] = @ \cup stage_dir[self]]
  /\ stage_dir' = [stage_dir EXCEPT ![self] = {}]
  /\ commit_stagedir_fd' = [commit_stagedir_fd EXCEPT ![self] = NoFd]
  /\ last' = Call("commit_transaction", self, NULL, "none", "none", "ok", "none")
  /\ UNCHANGED <<mode, parent_repo, owner_uid, tombstone_commits, written>>
  /\ UNCHANGED <<obj, otherVars, remoteVars, handleVars>>

\* ostree_repo_write_metadata_trusted / ostree_repo_write_content_trusted
write_object(self, objtype, checksum) ==
  LET path == _ostree_loose_path(checksum, objtype, mode[self])
      dest == WriteDest(self, checksum, objtype)
  IN  /\ objects_dir' = [objects_dir EXCEPT ![self] = @ \cup Added(dest, "objects", {path})]
      /\ stage_dir' = [stage_dir EXCEPT ![self] = @ \cup Added(dest, "stage", {path})]
      /\ written' = written \cup {<<self, objtype, checksum>>}
      /\ last' = Call("write", self, NULL, objtype, checksum, "ok", dest)
      /\ UNCHANGED <<mode, parent_repo, owner_uid, tombstone_commits, commit_stagedir_fd>>
      /\ UNCHANGED <<obj, otherVars, remoteVars, handleVars>>

write_commit_detached_metadata(self, checksum) ==
  LET path == _ostree_loose_path(checksum, COMMIT_META, mode[self])
      dest == DetachedDest(self)
  IN  /\ objects_dir' = [objects_dir EXCEPT ![self] = @ \cup Added(dest, "objects", {path})]
      /\ stage_dir' = [stage_dir EXCEPT ![self] = @ \cup Added(dest, "stage", {path})]
      /\ last' = Call("write_commit_detached_metadata", self, NULL, COMMIT_META, checksum, "ok", dest)
      /\ UNCHANGED <<mode, parent_repo, owner_uid, tombstone_commits, commit_stagedir_fd, written>>
      /\ UNCHANGED <<obj, otherVars, remoteVars, handleVars>>

----------------------------------------------------------------------------
(* ostree_repo_delete_object                                               *)

\* Faulty variant: only the commitmeta twin is unlinked, the object stays.
Mut_DeleteUnlinks_twin_only(self, objtype, checksum) ==
  IF objtype = COMMIT
  THEN {_ostree_loose_path(checksum, COMMIT_META, mode[self])} ELSE {}

\* Faulty variant: the commitmeta twin of a commit is left behind.
Mut_DeleteUnlinks_object_only(self, objtype, checksum) ==
  {_ostree_loose_path(checksum, objtype, mode[self])}

\* The unlinkat calls made on objects_dir_fd, in order: the commitmeta twin
\* of a commit (ENOENT ignored), then the object itself.
DeleteUnlinks(self, objtype, checksum) ==
  (IF objtype = COMMIT
   THEN {_ostree_loose_path(checksum, COMMIT_META, mode[self])} ELSE {})
  \cup {_ostree_loose_path(checksum, objtype, mode[self])}

\* unlinkat of the object fails with ENOENT when it is not in objects/
DeleteRet(self, objtype, checksum) ==
  IF InObjects(self, _ostree_loose_path(checksum, objtype, mode[self]))
  THEN "ok" ELSE "ENOENT"

\* Where the tombstone of a deleted commit is written ("none": not written)
DeleteTombstoneDest(self, objtype, checksum) ==
  IF DeleteRet(self, objtype, checksum) = "ok" /\ objtype = COMMIT
     /\ tombstone_commits[self]
  THEN WriteDest(self, checksum, TOMBSTONE_COMMIT)
  ELSE "none"

\* The value under key "commit" of the tombstone variant handed to
\* ostree_repo_write_metadata_trusted ("none": no variant is built)
DeleteTombstoneVariant(self, objtype, checksum) ==
  IF DeleteRet(self, objtype, checksum) = "ok" /\ objtype = COMMIT
     /\ tombstone_commits[self]
  THEN checksum ELSE "none"

delete_object(self, objtype, checksum) ==
  LET tomb == _ostree_loose_path(checksum, TOMBSTONE_COMMIT, mode[self])
      dest == DeleteTombstoneDest(self, objtype, checksum)
      ret == DeleteRet(self, objtype, checksum)
  IN  /\ objects_dir' = [objects_dir EXCEPT ![self] =
             (@ \ DeleteUnlinks(self, objtype, checksum))
             \cup Added(dest, "objects", {tomb})]
      /\ stage_dir' = [stage_dir EXCEPT ![self] = @ \cup Added(dest, "stage", {tomb})]
      /\ written' = IF ret = "ok" THEN written \ {<<self, objtype, checksum>>} ELSE written
      /\ last' = [Call("delete", self, NULL, objtype, checksum, ret, dest)
                    EXCEPT !.tombstone = DeleteTombstoneVariant(self, objtype, checksum)]
      /\ UNCHANGED <<mode, parent_repo, owner_uid, tombstone_commits, commit_stagedir_fd>>
      /\ UNCHANGED <<obj, otherVars, remoteVars, handleVars>>

----------------------------------------------------------------------------
(* Enumeration: ostree_repo_list_objects and                                *)
(* ostree_repo_list_commit_objects_starting_with                            *)

\* The characters of a checksum (the model's checksums are two characters
\* long), and g_str_has_prefix over them
ChecksumChars(checksum) == IF checksum = CsumReg THEN <<"a", "a">> ELSE <<"b", "b">>
g_str_has_prefix(str, prefix) ==
  Len(str) >= Len(prefix) /\ SubSeq(str, 1, Len(prefix)) = prefix

\* No commit_starting_with argument
NoStart == <<"NULL">>

\* The object type that list_loose_objects_at reads off the extension of a
\* file name in objects/ ("none": the entry is skipped)
ExtObjtype(self, ext) ==
  IF \/ mode[self] = MODE_ARCHIVE_Z2 /\ ext = "filez"
     \/ mode[self] # MODE_ARCHIVE_Z2 /\ ext = "file"
  THEN FILE
  ELSE IF ext \in {DIR_TREE, DIR_META, COMMIT} THEN ext
  ELSE "none"

\* list_loose_objects: the serialized names (checksum, objtype) of the
\* entries of self->objects_dir_fd, all 256 prefix directories taken
\* together; every file name of the model has the 62 characters the code
\* asks for before the dot
list_loose_objects(self, commit_starting_with) ==
  {<<path[1], ExtObjtype(self, path[2])>> :
     path \in {p \in objects_dir[self] :
                 /\ ExtObjtype(self, p[2]) # "none"
                 /\ \/ commit_starting_with = NoStart
                    \/ /\ ExtObjtype(self, p[2]) = COMMIT
                       /\ g_str_has_prefix(ChecksumChars(p[1]), commit_starting_with)}}

ostree_repo_list_objects(self, flags) ==
  LET all == IF "ALL" \in flags THEN flags \cup {"LOOSE", "PACKED"} ELSE flags
  IN  IF "LOOSE" \notin all THEN {}
      ELSE list_loose_objects(self, NoStart)
           \cup (IF "NO_PARENTS" \notin all /\ parent_repo[self] # NULL
                 THEN list_loose_objects(parent_repo[self], NoStart)
                 ELSE {})

ostree_repo_list_commit_objects_starting_with(self, start) ==
  list_loose_objects(self, start)
  \cup (IF parent_repo[self] # NULL
        THEN list_loose_objects(parent_repo[self], start)
        ELSE {})

ListCall(op, self, arg, listed) ==
  [Call(op, self, NULL, "none", "none", "ok", "none")
     EXCEPT !.value = [arg |-> arg, listed |-> listed]]

list_objects_call(self, flags) ==
  /\ last' = ListCall("list_objects", self, flags, ostree_repo_list_objects(self, flags))
  /\ UNCHANGED <<mode, parent_repo, owner_uid, tombstone_commits, commit_stagedir_fd,
                 objects_dir, stage_dir, written>>
  /\ UNCHANGED <<obj, otherVars, remoteVars, handleVars>>

list_commit_objects_starting_with_call(self, start) ==
  /\ last' = ListCall("list_commits", self, start,
                      ostree_repo_list_commit_objects_starting_with(self, start))
  /\ UNCHANGED <<mode, parent_repo, owner_uid, tombstone_commits, commit_stagedir_fd,
                 objects_dir, stage_dir, written>>
  /\ UNCHANGED <<obj, otherVars, remoteVars, handleVars>>

----------------------------------------------------------------------------
(* Import: ostree_repo_import_object_from_with_trust                       *)

import_is_bareuser_only_conversion(src_repo, dest_repo, objtype) ==
  /\ mode[src_repo] = MODE_BARE_USER
  /\ mode[dest_repo] = MODE_BARE_USER_ONLY
  /\ objtype = FILE

\* Faulty variant: the owner uids of the two repos are not compared.
Mut_import_via_hardlink_ignores_uid(src_repo, dest_repo, objtype) ==
  IF mode[src_repo] = mode[dest_repo] THEN TRUE
  ELSE IF IS_META(objtype) THEN TRUE
  ELSE IF import_is_bareuser_only_conversion(src_repo, dest_repo, objtype) THEN TRUE
  ELSE FALSE

import_via_hardlink_is_possible(src_repo, dest_repo, objtype) ==
  IF owner_uid[src_repo] # owner_uid[dest_repo] THEN FALSE
  ELSE IF mode[src_repo] = mode[dest_repo] THEN TRUE
  ELSE IF IS_META(objtype) THEN TRUE
  ELSE IF import_is_bareuser_only_conversion(src_repo, dest_repo, objtype) THEN TRUE
  ELSE FALSE

\* The outcome of one import step: what it returns, the path it took, and
\* the loose paths it adds to the destination's objects/ and staging dirs.
Outcome(ret, via, objs, stg) == [ret |-> ret, via |-> via, objs |-> objs, stg |-> stg]

\* copy_detached_metadata: the commitmeta path it writes into dest ("none"
\* as dest when the source has no detached metadata)
copy_detached_metadata(self, source, checksum) ==
  IF read_commit_detached_metadata(source, checksum).ret = "ok"
  THEN DetachedDest(self) ELSE "none"

\* linkat (source->objects_dir_fd, path, self->objects_dir_fd, path): ENOENT
\* when the source path is missing, EEXIST when the target exists, else the
\* error the file systems give (linkerr: "none", or EMLINK/EXDEV/EPERM).
linkat(self, source, path, linkerr) ==
  IF ~InObjects(source, path) THEN "ENOENT"
  ELSE IF InObjects(self, path) THEN "EEXIST"
  ELSE linkerr

import_one_object_link(self, source, checksum, objtype, linkerr) ==
  LET path == _ostree_loose_path(checksum, objtype, mode[self])
      meta == _ostree_loose_path(checksum, COMMIT_META, mode[self])
      conv == import_is_bareuser_only_conversion(source, self, objtype)
      st == load_file_bare(source, checksum)
      err == linkat(self, source, path, linkerr)
      mdest == IF objtype = COMMIT
               THEN copy_detached_metadata(self, source, checksum) ELSE "none"
  IN  IF conv /\ st.ret # "ok" THEN Outcome(st.ret, "error", {}, {})
      ELSE IF conv /\ st.st_mode = S_IFLNK THEN Outcome("ok", "unsupported", {}, {})
      ELSE IF err = "EEXIST" THEN Outcome("ok", "eexist", {}, {})
      ELSE IF err \in {"EMLINK", "EXDEV", "EPERM"} THEN Outcome("ok", "unsupported", {}, {})
      ELSE IF err # "none" THEN Outcome(err, "error", {}, {})
      ELSE Outcome("ok", "linked",
                   {path} \cup Added(mdest, "objects", {meta}),
                   Added(mdest, "stage", {meta}))

\* Faulty variant: the copy path reports success without writing the object.
Mut_import_copy_no_write(self, source, objtype, checksum) ==
  Outcome("ok", "copied", {}, {})

\* The copy path: has_object, then load from the source and write
import_copy(self, source, objtype, checksum) ==
  LET path == _ostree_loose_path(checksum, objtype, mode[self])
      meta == _ostree_loose_path(checksum, COMMIT_META, mode[self])
      mdest == IF objtype = COMMIT
               THEN copy_detached_metadata(self, source, checksum) ELSE "none"
      loaded == IF IS_META(objtype)
                THEN ostree_repo_load_variant(source, objtype, checksum)
                ELSE ostree_repo_load_file(source, checksum)
      dest == WriteDest(self, checksum, objtype)
  IN  IF has_object(self, objtype, checksum) THEN Outcome("ok", "present", {}, {})
      ELSE IF loaded.ret # "ok"
           THEN Outcome(loaded.ret, "error",
                        Added(mdest, "objects", {meta}), Added(mdest, "stage", {meta}))
      ELSE Outcome("ok", "copied",
                   Added(dest, "objects", {path}) \cup Added(mdest, "objects", {meta}),
                   Added(dest, "stage", {path}) \cup Added(mdest, "stage", {meta}))

import_outcome(self, source, objtype, checksum, trusted, linkerr) ==
  LET link == import_one_object_link(self, source, checksum, objtype, linkerr)
  IN  IF trusted /\ import_via_hardlink_is_possible(source, self, objtype)
         /\ link.via # "unsupported"
      THEN link
      ELSE import_copy(self, source, objtype, checksum)

import_object_from_with_trust(self, source, objtype, checksum, trusted, linkerr) ==
  LET out == import_outcome(self, source, objtype, checksum, trusted, linkerr)
  IN  /\ self # source
      /\ objects_dir' = [objects_dir EXCEPT ![self] = @ \cup out.objs]
      /\ stage_dir' = [stage_dir EXCEPT ![self] = @ \cup out.stg]
      /\ last' = [Call("import", self, source, objtype, checksum, out.ret, out.via)
                    EXCEPT !.trusted = trusted]
      /\ UNCHANGED <<mode, parent_repo, owner_uid, tombstone_commits,
                     commit_stagedir_fd, written>>
      /\ UNCHANGED <<obj, otherVars, remoteVars, handleVars>>

----------------------------------------------------------------------------
(* The remotes registry: self->remotes, the config file and remotes.d      *)

\* Remote names as byte strings: "B", "a", "ab" and "b"
RemoteNames == {<<66>>, <<97>>, <<97, 98>>, <<98>>}
NoRemote == "absent"
IN_CONFIG == "config"
IN_REMOTES_D == "remotes.d"
\* remote->file of a remote read from a remotes.d file that holds several
\* remote groups, and the base name "00" of that file
IN_DROPIN == "dropin"
DropinFile == <<48, 48>>

\* The value of the option "url" of a remote; NoKey when the group has none
Urls == {"u1", "u2"}
NoKey == "unset"
NoOptions == [n \in RemoteNames |-> NoKey]
NoGroups == [w \in {IN_CONFIG, IN_REMOTES_D, IN_DROPIN} |-> NoOptions]

\* The frames the stack has room for before it is exhausted
MaxStack == 3

\* strcmp: compares byte by byte, the end of a string being the byte 0
RECURSIVE strcmp(_, _)
strcmp(s1, s2) ==
  LET c1 == IF s1 = <<>> THEN 0 ELSE Head(s1)
      c2 == IF s2 = <<>> THEN 0 ELSE Head(s2)
  IN  IF c1 # c2 THEN c1 - c2
      ELSE IF c1 = 0 THEN 0
      ELSE strcmp(Tail(s1), Tail(s2))

\* Faulty variant: the key list is handed on as the hash table gave it.
Mut_g_list_sort_identity(list) == list

\* g_list_sort (list, strcmp): every key is put before the first key that
\* strcmp says is greater
RECURSIVE InsertSorted(_, _)
InsertSorted(sorted, key) ==
  IF sorted = <<>> THEN <<key>>
  ELSE IF strcmp(key, Head(sorted)) < 0 THEN <<key>> \o sorted
  ELSE <<Head(sorted)>> \o InsertSorted(Tail(sorted), key)

RECURSIVE g_list_sort(_)
g_list_sort(list) ==
  IF list = <<>> THEN <<>>
  ELSE InsertSorted(g_list_sort(Tail(list)), Head(list))

\* The remote groups of the several-group file of remotes.d, and the key
\* files reload_remote_config finds in remotes.d
DropinGroups(self) == {n \in RemoteNames : group_options[self][IN_DROPIN][n] # NoKey}
DirFiles(self) ==
  remotes_d[self] \cup (IF DropinGroups(self) # {} THEN {DropinFile} ELSE {})

\* The keys of self->remotes
RemoteKeys(self) == {n \in RemoteNames : remotes[self][n] # NoRemote}

\* The orders in which a hash table or a directory may hand out a set
Orders(S) ==
  {seq \in [1..Cardinality(S) -> S] : \A i, j \in 1..Cardinality(S) : i # j => seq[i] # seq[j]}

\* The remote_list call: not made, returned, recursing, or crashed
NoList == [pc |-> "idle", self |-> NULL, depth |-> 0, remotes |-> <<>>,
           is_null |-> TRUE, n_remotes |-> 0]
ListBusy == rl.pc \in {"recursing", "crashed"}

\* _ostree_repo_get_remote: g_hash_table_lookup (self->remotes, name)
_ostree_repo_get_remote(self, name) ==
  IF remotes[self][name] # NoRemote THEN "ok" ELSE "not_found"

RemoteCall(op, self, name, ret, via) ==
  [Call(op, self, NULL, "none", "none", ret, via) EXCEPT !.name = name]

\* Faulty variant: add-if-not-exists of a name already in self->remotes
\* replaces the url of the existing remote.
Mut_impl_repo_remote_add_replaces(self, if_not_exists, name, url, fault) ==
  LET exists == remotes[self][name] # NoRemote
      where == IF exists THEN remotes[self][name]
               ELSE IF remotes_d_dir[self] THEN IN_REMOTES_D ELSE IN_CONFIG
  IN  /\ ~ListBusy
      /\ IF exists /\ ~if_not_exists
         THEN /\ UNCHANGED <<remotes, config_remotes, remotes_d,
                             remote_options, group_options>>
              /\ last' = RemoteCall("remote_add", self, name, "exists", "none")
         ELSE /\ remotes_d' = IF where = IN_REMOTES_D
                              THEN [remotes_d EXCEPT ![self] = @ \cup {name}]
                              ELSE remotes_d
              /\ config_remotes' = IF where = IN_CONFIG
                                   THEN [config_remotes EXCEPT ![self] = @ \cup {name}]
                                   ELSE config_remotes
              /\ remotes' = [remotes EXCEPT ![self][name] = where]
              /\ remote_options' = [remote_options EXCEPT ![self][name] = url]
              /\ group_options' = [group_options EXCEPT ![self][where][name] = url]
              /\ last' = RemoteCall("remote_add", self, name, "ok",
                                    IF exists THEN "if_not_exists" ELSE where)
      /\ UNCHANGED <<handleVars, storeVars, obj, otherVars, remotes_d_dir, rl>>

\* ostree_repo_remote_add / ostree_repo_remote_change (ADD, ADD_IF_NOT_EXISTS).
\* fault "persist": making remotes.d, g_file_replace_contents or
\* ostree_repo_write_config fails, which returns before the registry is touched
impl_repo_remote_add(self, if_not_exists, name, url, fault) ==
  LET exists == remotes[self][name] # NoRemote
      where == IF remotes_d_dir[self] THEN IN_REMOTES_D ELSE IN_CONFIG
  IN  /\ ~ListBusy
      /\ IF exists
         THEN /\ UNCHANGED <<remotes, config_remotes, remotes_d,
                             remote_options, group_options>>
              /\ last' = RemoteCall("remote_add", self, name,
                                    IF if_not_exists THEN "ok" ELSE "exists",
                                    IF if_not_exists THEN "if_not_exists" ELSE "none")
         ELSE IF fault = "persist"
         THEN /\ UNCHANGED <<remotes, config_remotes, remotes_d,
                             remote_options, group_options>>
              /\ last' = RemoteCall("remote_add", self, name, "EIO", where)
         ELSE /\ remotes_d' = IF remotes_d_dir[self]
                              THEN [remotes_d EXCEPT ![self] = @ \cup {name}]
                              ELSE remotes_d
              /\ config_remotes' = IF remotes_d_dir[self] THEN config_remotes
                                   ELSE [config_remotes EXCEPT ![self] = @ \cup {name}]
              /\ remotes' = [remotes EXCEPT ![self][name] = where]
              /\ remote_options' = [remote_options EXCEPT ![self][name] = url]
              /\ group_options' = [group_options EXCEPT ![self][where][name] = url]
              /\ last' = RemoteCall("remote_add", self, name, "ok", where)
      /\ UNCHANGED <<handleVars, storeVars, obj, otherVars, remotes_d_dir, rl>>

\* Faulty variant: the persisted group is removed and the call succeeds,
\* but the remote stays in self->remotes.
Mut_impl_repo_remote_delete_keeps_entry(self, if_exists, name, fault) ==
  /\ ~ListBusy
  /\ remotes[self][name] # NoRemote
  /\ remotes_d' = [remotes_d EXCEPT ![self] = @ \ {name}]
  /\ config_remotes' = [config_remotes EXCEPT ![self] = @ \ {name}]
  /\ group_options' = [group_options EXCEPT ![self][remotes[self][name]][name] = NoKey]
  /\ last' = RemoteCall("remote_delete", self, name, "ok", remotes[self][name])
  /\ UNCHANGED <<handleVars, storeVars, obj, otherVars, remotes, remotes_d_dir, remote_options, rl>>

\* ostree_repo_remote_delete / ostree_repo_remote_change (DELETE, DELETE_IF_EXISTS).
\* fault "persist": ostree_repo_write_config fails; fault "keyring":
\* ot_ensure_unlinked_at of the keyring of the remote fails, after the file
\* or the group of the remote is gone and before _ostree_repo_remove_remote
impl_repo_remote_delete(self, if_exists, name, fault) ==
  LET where == remotes[self][name]
      unlink == IF where = IN_DROPIN
                THEN (IF DropinGroups(self) # {} THEN "ok" ELSE "ENOENT")
                ELSE (IF name \in remotes_d[self] THEN "ok" ELSE "ENOENT")
  IN  /\ ~ListBusy
      /\ IF where = NoRemote
         THEN /\ UNCHANGED <<remotes, config_remotes, remotes_d,
                             remote_options, group_options>>
              /\ last' = RemoteCall("remote_delete", self, name,
                                    IF if_exists THEN "ok" ELSE "not_found",
                                    IF if_exists THEN "if_exists" ELSE "none")
         ELSE IF where \in {IN_REMOTES_D, IN_DROPIN} /\ unlink # "ok"
         THEN /\ UNCHANGED <<remotes, config_remotes, remotes_d,
                             remote_options, group_options>>
              /\ last' = RemoteCall("remote_delete", self, name, unlink, where)
         ELSE IF where = IN_CONFIG /\ fault = "persist"
         THEN /\ UNCHANGED <<remotes, config_remotes, remotes_d,
                             remote_options, group_options>>
              /\ last' = RemoteCall("remote_delete", self, name, "EIO", where)
         ELSE /\ remotes_d' = IF where = IN_REMOTES_D
                              THEN [remotes_d EXCEPT ![self] = @ \ {name}]
                              ELSE remotes_d
              /\ config_remotes' = IF where = IN_CONFIG
                                   THEN [config_remotes EXCEPT ![self] = @ \ {name}]
                                   ELSE config_remotes
              /\ remotes' = IF fault = "keyring" THEN remotes
                             ELSE [remotes EXCEPT ![self][name] = NoRemote]
              /\ remote_options' = IF fault = "keyring" THEN remote_options
                                    ELSE [remote_options EXCEPT ![self][name] = NoKey]
              /\ group_options' = IF where = IN_DROPIN
                                   THEN [group_options EXCEPT ![self][where] = NoOptions]
                                   ELSE [group_options EXCEPT ![self][where][name] = NoKey]
              /\ last' = RemoteCall("remote_delete", self, name,
                                    IF fault = "keyring" THEN "EIO" ELSE "ok", where)
      /\ UNCHANGED <<handleVars, storeVars, obj, otherVars, remotes_d_dir, rl>>

\* Faulty variant: a group naming a remote already in the registry
\* replaces it.
Mut_add_remotes_from_keyfile_replaces(reg, groups, where) ==
  [ret |-> "ok", reg |-> [n \in RemoteNames |-> IF n \in groups THEN where ELSE reg[n]]]

\* add_remotes_from_keyfile: the groups of one key file enter the registry
\* together, or none does when one of them names a remote already there
add_remotes_from_keyfile(reg, groups, where) ==
  IF \E n \in groups : reg[n] # NoRemote
  THEN [ret |-> "multiple", reg |-> reg]
  ELSE [ret |-> "ok", reg |-> [n \in RemoteNames |-> IF n \in groups THEN where ELSE reg[n]]]

\* The loop of reload_remote_config over remotes.d: one key file after the
\* other in the order the directory gives them, stopping at the first error
RECURSIVE append_remote_configs(_, _, _)
append_remote_configs(self, reg, files) ==
  IF files = <<>> THEN [ret |-> "ok", reg |-> reg]
  ELSE LET one == IF Head(files) = DropinFile
                  THEN add_remotes_from_keyfile(reg, DropinGroups(self), IN_DROPIN)
                  ELSE add_remotes_from_keyfile(reg, {Head(files)}, IN_REMOTES_D)
       IN  IF one.ret # "ok" THEN one
           ELSE append_remote_configs(self, one.reg, Tail(files))

reload_remote_config(self, files) ==
  LET empty == [n \in RemoteNames |-> NoRemote]
      in_config == add_remotes_from_keyfile(empty, config_remotes[self], IN_CONFIG)
  IN  IF ~remotes_d_dir[self] THEN in_config
      ELSE append_remote_configs(self, in_config.reg, files)

\* ostree_remote_new_from_keyfile: a remote's options are those of the
\* group it was read from
RemoteOptionsOf(self, reg) ==
  [n \in RemoteNames |->
     IF reg[n] = NoRemote THEN NoKey ELSE group_options[self][reg[n]][n]]

\* A <name>.conf file is installed into the repo's remotes.d from outside
\* the handle; the handle sees it at its next reload.
remotes_d_file_installed(self, name, url) ==
  /\ ~ListBusy
  /\ remotes_d_dir[self]
  /\ name \notin remotes_d[self]
  /\ remotes_d' = [remotes_d EXCEPT ![self] = @ \cup {name}]
  /\ group_options' = [group_options EXCEPT ![self][IN_REMOTES_D][name] = url]
  /\ last' = RemoteCall("install", self, name, "ok", IN_REMOTES_D)
  /\ UNCHANGED <<handleVars, storeVars, obj, otherVars, remotes, config_remotes, remotes_d_dir,
                 remote_options, rl>>

\* A key file with several remote groups is installed into remotes.d
dropin_file_installed(self, groups, url) ==
  /\ ~ListBusy
  /\ remotes_d_dir[self]
  /\ DropinGroups(self) = {}
  /\ groups # {}
  /\ group_options' = [group_options EXCEPT ![self][IN_DROPIN] =
                         [n \in RemoteNames |-> IF n \in groups THEN url ELSE NoKey]]
  /\ last' = RemoteCall("install", self, <<>>, "ok", IN_DROPIN)
  /\ UNCHANGED <<handleVars, storeVars, obj, otherVars, remotes, config_remotes, remotes_d, remotes_d_dir,
                 remote_options, rl>>

\* ostree_repo_remote_list: the names are collected into a hash set, and
\* the set's keys (in the order the hash table gives them) are sorted. The
\* collecting function calls itself on self when self has a parent repo.
ostree_repo_remote_list(self, keys) ==
  /\ ~ListBusy
  /\ rl' = IF parent_repo[self] # NULL
           THEN [NoList EXCEPT !.pc = "recursing", !.self = self, !.depth = 1]
           ELSE [pc |-> "returned", self |-> self, depth |-> 0,
                 remotes |-> IF Len(keys) > 0 THEN g_list_sort(keys) ELSE <<>>,
                 is_null |-> Len(keys) = 0,
                 n_remotes |-> Len(keys)]
  /\ last' = RemoteCall("remote_list", self, <<>>, "ok", "none")
  /\ UNCHANGED <<handleVars, storeVars, obj, otherVars, remotes, config_remotes, remotes_d, remotes_d_dir,
                 remote_options, group_options>>

\* One more frame of _ostree_repo_remote_list (self, out)
remote_list_recurse ==
  /\ rl.pc = "recursing"
  /\ rl.depth < MaxStack
  /\ rl' = [rl EXCEPT !.depth = @ + 1]
  /\ UNCHANGED <<handleVars, storeVars, obj, otherVars, last, remotes, config_remotes, remotes_d,
                 remotes_d_dir, remote_options, group_options>>

\* The stack is exhausted and the process dies. (A build that turns the
\* tail call into a jump spins instead: it stays in "recursing" for ever.)
remote_list_overflow ==
  /\ rl.pc = "recursing"
  /\ rl.depth = MaxStack
  /\ rl' = [rl EXCEPT !.pc = "crashed"]
  /\ UNCHANGED <<handleVars, storeVars, obj, otherVars, last, remotes, config_remotes, remotes_d,
                 remotes_d_dir, remote_options, group_options>>

----------------------------------------------------------------------------
(* Remote options: ostree_repo_get_remote_option and its siblings          *)

\* "file://" and the remote name "file://x"
FilePrefix == <<102, 105, 108, 101, 58, 47, 47>>
FileRemoteName == FilePrefix \o <<120>>

_ostree_repo_remote_name_is_file(remote_name) ==
  g_str_has_prefix(remote_name, FilePrefix)

\* What a getter hands back: its return and *out_value
OptionResult(ret, value) == [ret |-> ret, value |-> value]

\* Faulty variant: a local remote without the key answers with the default
\* and the parent repo is not asked.
Mut_get_remote_option_no_inherit(self, remote_name, default_value) ==
  IF _ostree_repo_remote_name_is_file(remote_name) THEN OptionResult("ok", default_value)
  ELSE IF _ostree_repo_get_remote(self, remote_name) = "ok"
       THEN OptionResult("ok", IF remote_options[self][remote_name] # NoKey
                               THEN remote_options[self][remote_name]
                               ELSE default_value)
  ELSE OptionResult("not_found", "NULL")

RECURSIVE ostree_repo_get_remote_option(_, _, _)
ostree_repo_get_remote_option(self, remote_name, default_value) ==
  IF _ostree_repo_remote_name_is_file(remote_name) THEN OptionResult("ok", default_value)
  ELSE IF _ostree_repo_get_remote(self, remote_name) = "ok"
       THEN IF remote_options[self][remote_name] # NoKey
            THEN OptionResult("ok", remote_options[self][remote_name])
            ELSE IF parent_repo[self] # NULL
                    /\ ostree_repo_get_remote_option(parent_repo[self], remote_name,
                                                     default_value).ret = "ok"
                 THEN ostree_repo_get_remote_option(parent_repo[self], remote_name,
                                                    default_value)
            ELSE OptionResult("ok", default_value)
  ELSE IF parent_repo[self] # NULL
       THEN ostree_repo_get_remote_option(parent_repo[self], remote_name, default_value)
  ELSE OptionResult("not_found", "NULL")

\* g_key_file_get_string_list of the option; the default is always NULL
RECURSIVE ostree_repo_get_remote_list_option(_, _)
ostree_repo_get_remote_list_option(self, remote_name) ==
  IF _ostree_repo_remote_name_is_file(remote_name) THEN OptionResult("ok", "NULL")
  ELSE IF _ostree_repo_get_remote(self, remote_name) = "ok"
       THEN IF remote_options[self][remote_name] # NoKey
            THEN OptionResult("ok", <<remote_options[self][remote_name]>>)
            ELSE IF parent_repo[self] # NULL
                    /\ ostree_repo_get_remote_list_option(parent_repo[self],
                                                          remote_name).ret = "ok"
                 THEN ostree_repo_get_remote_list_option(parent_repo[self], remote_name)
            ELSE OptionResult("ok", "NULL")
  ELSE IF parent_repo[self] # NULL
       THEN ostree_repo_get_remote_list_option(parent_repo[self], remote_name)
  ELSE OptionResult("not_found", "NULL")

\* g_key_file_get_boolean: "true" and "false" parse, anything else is
\* G_KEY_FILE_ERROR_INVALID_VALUE, which is propagated with *out_value FALSE
RECURSIVE ostree_repo_get_remote_boolean_option(_, _, _)
ostree_repo_get_remote_boolean_option(self, remote_name, default_value) ==
  IF _ostree_repo_remote_name_is_file(remote_name) THEN OptionResult("ok", default_value)
  ELSE IF _ostree_repo_get_remote(self, remote_name) = "ok"
       THEN IF remote_options[self][remote_name] \in {"true", "false"}
            THEN OptionResult("ok", remote_options[self][remote_name] = "true")
            ELSE IF remote_options[self][remote_name] # NoKey
            THEN OptionResult("invalid_value", FALSE)
            ELSE IF parent_repo[self] # NULL
                    /\ ostree_repo_get_remote_boolean_option(parent_repo[self], remote_name,
                                                             default_value).ret = "ok"
                 THEN ostree_repo_get_remote_boolean_option(parent_repo[self], remote_name,
                                                            default_value)
            ELSE OptionResult("ok", default_value)
  ELSE IF parent_repo[self] # NULL
       THEN ostree_repo_get_remote_boolean_option(parent_repo[self], remote_name,
                                                  default_value)
  ELSE OptionResult("not_found", FALSE)

\* One call of a getter; kind is "string", "list" or "boolean"
get_remote_option_call(kind, self, remote_name, default_value) ==
  LET got == IF kind = "string"
             THEN ostree_repo_get_remote_option(self, remote_name, default_value)
             ELSE IF kind = "list"
             THEN ostree_repo_get_remote_list_option(self, remote_name)
             ELSE ostree_repo_get_remote_boolean_option(self, remote_name, default_value)
  IN  /\ ~ListBusy
      /\ last' = [RemoteCall("get_remote_option", self, remote_name, got.ret, kind)
                    EXCEPT !.value = got.value]
      /\ UNCHANGED <<handleVars, storeVars, obj, otherVars, remoteVars>>

\* ostree_repo_remote_get_url: a file:// name is its own URL; any other
\* name needs the option "url"
ostree_repo_remote_get_url(self, name) ==
  IF _ostree_repo_remote_name_is_file(name) THEN OptionResult("ok", name)
  ELSE LET url == ostree_repo_get_remote_option(self, name, "NULL")
       IN  IF url.ret # "ok" THEN url
           ELSE IF url.value = "NULL" THEN OptionResult("not_found", "NULL")
           ELSE url

\* Faulty variant: a file:// name is looked up like any other
Mut_remote_get_gpg_verify_no_bypass(self, name) ==
  ostree_repo_get_remote_boolean_option(self, name, TRUE)

\* ostree_repo_remote_get_gpg_verify and
\* ostree_repo_remote_get_gpg_verify_summary
ostree_repo_remote_get_gpg_verify(self, name) ==
  IF _ostree_repo_remote_name_is_file(name) THEN OptionResult("ok", FALSE)
  ELSE ostree_repo_get_remote_boolean_option(self, name, TRUE)

ostree_repo_remote_get_gpg_verify_summary(self, name) ==
  ostree_repo_get_remote_boolean_option(self, name, FALSE)

\* One call of ostree_repo_remote_get_url, ..._get_gpg_verify or
\* ..._get_gpg_verify_summary
remote_get_call(what, self, name) ==
  LET got == IF what = "url" THEN ostree_repo_remote_get_url(self, name)
             ELSE IF what = "gpg_verify"
             THEN ostree_repo_remote_get_gpg_verify(self, name)
             ELSE ostree_repo_remote_get_gpg_verify_summary(self, name)
  IN  /\ ~ListBusy
      /\ last' = [RemoteCall("remote_get", self, name, got.ret, what)
                    EXCEPT !.value = got.value]
      /\ UNCHANGED <<handleVars, storeVars, obj, otherVars, remoteVars>>

----------------------------------------------------------------------------
(* The dirmeta cache (OstreeRepoMemoryCacheRef, load_metadata_internal)    *)

Threads == {"t1", "t2"}
CacheRefs == {"ref1", "ref2"}
Idle == [pc |-> "idle", ref |-> NULL, checksum |-> "none"]

\* self->dirmeta_cache: NULL, or a hash table keyed by checksum
NoCache == [is_null |-> TRUE, table |-> {}]
g_hash_table_new_full == [is_null |-> FALSE, table |-> {}]

\* g_mutex_lock (&repo->cache_lock) by thread t, which blocks while another
\* thread holds the mutex, and g_mutex_unlock
g_mutex_lock(t, pc) ==
  /\ cache_lock = NULL
  /\ cache_lock' = t
  /\ threads' = [threads EXCEPT ![t].pc = pc]
g_mutex_unlock(t, next) ==
  /\ cache_lock = t
  /\ cache_lock' = NULL
  /\ threads' = [threads EXCEPT ![t] = next]

\* The reference object is in use by no thread
RefFree(ref) == \A t \in Threads : threads[t].ref # ref

\* Everything outside the dirmeta cache, which its operations leave alone
CacheFrame == UNCHANGED <<storeVars, handleVars, remoteVars, obj, notCacheVars>>

\* Faulty variant: the reference is taken without counting it
Mut_ref_init_no_refcount(t, ref) ==
  /\ \/ /\ threads[t].pc = "idle" /\ ref \notin cache_refs /\ RefFree(ref)
        /\ cache_lock = NULL /\ cache_lock' = t
        /\ threads' = [threads EXCEPT ![t] = [pc |-> "init_new", ref |-> ref,
                                              checksum |-> "none"]]
        /\ UNCHANGED <<dirmeta_cache, dirmeta_cache_refcount, cache_refs>>
     \/ /\ threads[t].pc = "init_new" /\ threads[t].ref = ref
        /\ dirmeta_cache' = IF dirmeta_cache.is_null THEN g_hash_table_new_full
                             ELSE dirmeta_cache
        /\ threads' = [threads EXCEPT ![t].pc = "init_unlock"]
        /\ UNCHANGED <<dirmeta_cache_refcount, cache_lock, cache_refs>>
     \/ /\ threads[t].pc = "init_unlock" /\ threads[t].ref = ref
        /\ g_mutex_unlock(t, Idle)
        /\ cache_refs' = cache_refs \cup {ref}
        /\ UNCHANGED <<dirmeta_cache, dirmeta_cache_refcount>>
  /\ UNCHANGED last /\ CacheFrame

\* _ostree_repo_memory_cache_ref_init (state, repo) run by thread t, one
\* statement at a time
_ostree_repo_memory_cache_ref_init(t, ref) ==
  /\ \/ /\ threads[t].pc = "idle" /\ ref \notin cache_refs /\ RefFree(ref)
        /\ cache_lock = NULL /\ cache_lock' = t
        /\ threads' = [threads EXCEPT ![t] = [pc |-> "init_inc", ref |-> ref,
                                              checksum |-> "none"]]
        /\ UNCHANGED <<dirmeta_cache, dirmeta_cache_refcount, cache_refs>>
     \/ /\ threads[t].pc = "init_inc" /\ threads[t].ref = ref
        /\ dirmeta_cache_refcount' = dirmeta_cache_refcount + 1
        /\ threads' = [threads EXCEPT ![t].pc = "init_new"]
        /\ UNCHANGED <<dirmeta_cache, cache_lock, cache_refs>>
     \/ /\ threads[t].pc = "init_new" /\ threads[t].ref = ref
        /\ dirmeta_cache' = IF dirmeta_cache.is_null THEN g_hash_table_new_full
                             ELSE dirmeta_cache
        /\ threads' = [threads EXCEPT ![t].pc = "init_unlock"]
        /\ UNCHANGED <<dirmeta_cache_refcount, cache_lock, cache_refs>>
     \/ /\ threads[t].pc = "init_unlock" /\ threads[t].ref = ref
        /\ g_mutex_unlock(t, Idle)
        /\ cache_refs' = cache_refs \cup {ref}
        /\ UNCHANGED <<dirmeta_cache, dirmeta_cache_refcount>>
  /\ UNCHANGED last /\ CacheFrame

\* _ostree_repo_memory_cache_ref_destroy (state) run by thread t on a
\* reference that was initialized
_ostree_repo_memory_cache_ref_destroy(t, ref) ==
  /\ \/ /\ threads[t].pc = "idle" /\ ref \in cache_refs /\ RefFree(ref)
        /\ cache_lock = NULL /\ cache_lock' = t
        /\ threads' = [threads EXCEPT ![t] = [pc |-> "destroy_dec", ref |-> ref,
                                              checksum |-> "none"]]
        /\ UNCHANGED <<dirmeta_cache, dirmeta_cache_refcount, cache_refs>>
     \/ /\ threads[t].pc = "destroy_dec" /\ threads[t].ref = ref
        /\ dirmeta_cache_refcount' = dirmeta_cache_refcount - 1
        /\ threads' = [threads EXCEPT ![t].pc = "destroy_clear"]
        /\ UNCHANGED <<dirmeta_cache, cache_lock, cache_refs>>
     \/ /\ threads[t].pc = "destroy_clear" /\ threads[t].ref = ref
        /\ dirmeta_cache' = IF dirmeta_cache_refcount = 0 THEN NoCache ELSE dirmeta_cache
        /\ threads' = [threads EXCEPT ![t].pc = "destroy_unlock"]
        /\ UNCHANGED <<dirmeta_cache_refcount, cache_lock, cache_refs>>
     \/ /\ threads[t].pc = "destroy_unlock" /\ threads[t].ref = ref
        /\ g_mutex_unlock(t, Idle)
        /\ cache_refs' = cache_refs \ {ref}
        /\ UNCHANGED <<dirmeta_cache, dirmeta_cache_refcount>>
  /\ UNCHANGED last /\ CacheFrame

\* load_metadata_internal of the dirmeta object checksum with out_variant
\* and no out_stream, run by thread t on repo self: the cache is looked up
\* under the mutex, the object is read without it, and the variant read
\* is put into the cache under the mutex again
load_dirmeta(t, self, checksum) ==
  LET read == load_metadata_internal(self, DIR_META, checksum, TRUE)
      return(ret, via) ==
        last' = [Call("load_variant", self, NULL, DIR_META, checksum, ret, via)
                   EXCEPT !.value = t]
  IN  /\ \/ /\ threads[t].pc = "idle"
            /\ cache_lock = NULL /\ cache_lock' = t
            /\ threads' = [threads EXCEPT ![t] = [pc |-> "load_lookup", ref |-> NULL,
                                                  checksum |-> checksum]]
            /\ UNCHANGED <<dirmeta_cache, last>>
         \/ /\ threads[t].pc = "load_lookup" /\ threads[t].checksum = checksum
            /\ LET cache_hit == ~dirmeta_cache.is_null /\ checksum \in dirmeta_cache.table
               IN  IF cache_hit
                   THEN g_mutex_unlock(t, Idle) /\ return("ok", "cache")
                   ELSE g_mutex_unlock(t, [threads[t] EXCEPT !.pc = "load_read"])
                        /\ UNCHANGED last
            /\ UNCHANGED dirmeta_cache
         \/ /\ threads[t].pc = "load_read" /\ threads[t].checksum = checksum
            /\ IF read.ret = "ok" /\ read.repo = self
               THEN threads' = [threads EXCEPT ![t].pc = "load_lock"] /\ UNCHANGED last
               ELSE threads' = [threads EXCEPT ![t] = Idle] /\ return(read.ret, "parent")
            /\ UNCHANGED <<dirmeta_cache, cache_lock>>
         \/ /\ threads[t].pc = "load_lock" /\ threads[t].checksum = checksum
            /\ g_mutex_lock(t, "load_replace")
            /\ UNCHANGED <<dirmeta_cache, last>>
         \/ /\ threads[t].pc = "load_replace" /\ threads[t].checksum = checksum
            /\ dirmeta_cache' = IF dirmeta_cache.is_null THEN dirmeta_cache
                                 ELSE [dirmeta_cache EXCEPT !.table = @ \cup {checksum}]
            /\ g_mutex_unlock(t, Idle)
            /\ return("ok", "objects")
      /\ UNCHANGED <<dirmeta_cache_refcount, cache_refs>>
      /\ CacheFrame

InitCache ==
  /\ dirmeta_cache = NoCache
  /\ dirmeta_cache_refcount = 0
  /\ cache_lock = NULL
  /\ cache_refs = {}
  /\ threads = [t \in Threads |-> Idle]

----------------------------------------------------------------------------
(* Staging directories under tmp/ (_ostree_repo_allocate_tmpdir)           *)

Procs == {"p1", "p2", "p3"}
\* The names mkdtemp can draw for the template <tmpdir_prefix>XXXXXX
TmpNames == {"staging-a", "staging-b", "staging-c"}
NoProc == [pc |-> "idle", snapshot |-> {}, visited |-> {}, name |-> NULL,
           reusing_dir |-> FALSE]

\* Faulty variant: a lock that is busy counts as taken
Mut_try_lock_ignores_busy(p, tmpdir_name) ==
  [ret |-> TRUE, did_lock |-> TRUE, holder |-> p]

\* _ostree_repo_try_lock_tmpdir (tmpdir_dfd, tmpdir_name, ...) by process
\* p: glnx_make_lock_file with LOCK_EX | LOCK_NB on <tmpdir_name>-lock takes
\* the lock when nobody holds it; G_IO_ERROR_WOULD_BLOCK is success with
\* did_lock = FALSE
_ostree_repo_try_lock_tmpdir(p, tmpdir_name) ==
  IF lock_holder[tmpdir_name] = NULL
  THEN [ret |-> TRUE, did_lock |-> TRUE, holder |-> p]
  ELSE [ret |-> TRUE, did_lock |-> FALSE, holder |-> lock_holder[tmpdir_name]]

\* Faulty variant: the first loop may be left before every entry of tmp/
\* has been tried.
Mut_allocate_tmpdir_leaves_loop_early(p) ==
  LET me == procs[p]
      locked(d, reusing) ==
        /\ lock_holder' = [lock_holder EXCEPT ![d] = p]
        /\ procs' = [procs EXCEPT ![p] = [NoProc EXCEPT !.pc = "held", !.name = d,
                                                       !.reusing_dir = reusing]]
  IN  /\ \/ /\ me.pc = "idle"
            /\ procs' = [procs EXCEPT ![p] = [NoProc EXCEPT !.pc = "iterate",
                                                          !.snapshot = tmp_dirs]]
            /\ UNCHANGED <<tmp_dirs, lock_holder>>
         \/ /\ me.pc = "iterate"
            /\ \E dent \in tmp_dirs \ me.visited :
                 LET got == _ostree_repo_try_lock_tmpdir(p, dent)
                 IN  IF got.did_lock
                     THEN locked(dent, TRUE)
                     ELSE /\ procs' = [procs EXCEPT ![p].visited = @ \cup {dent}]
                          /\ UNCHANGED lock_holder
            /\ UNCHANGED tmp_dirs
         \/ /\ me.pc = "iterate"
            /\ procs' = [procs EXCEPT ![p] = [NoProc EXCEPT !.pc = "mkdtemp"]]
            /\ UNCHANGED <<tmp_dirs, lock_holder>>
         \/ /\ me.pc = "mkdtemp"
            /\ \E template \in TmpNames \ tmp_dirs :
                 /\ tmp_dirs' = tmp_dirs \cup {template}
                 /\ procs' = [procs EXCEPT ![p] = [me EXCEPT !.pc = "lock_new",
                                                            !.name = template]]
            /\ UNCHANGED lock_holder
         \/ /\ me.pc = "lock_new"
            /\ LET got == _ostree_repo_try_lock_tmpdir(p, me.name)
               IN  IF got.did_lock
                   THEN locked(me.name, FALSE)
                   ELSE /\ procs' = [procs EXCEPT ![p].pc = "mkdtemp"]
                        /\ UNCHANGED lock_holder
            /\ UNCHANGED tmp_dirs
      /\ UNCHANGED <<storeVars, handleVars, remoteVars, obj, last, notStagingVars>>

\* Faulty variant: a process that lost the lock of the directory it
\* created tries the same lock again instead of creating another directory.
Mut_allocate_tmpdir_retries_same_dir(p) ==
  LET me == procs[p]
      locked(d, reusing) ==
        /\ lock_holder' = [lock_holder EXCEPT ![d] = p]
        /\ procs' = [procs EXCEPT ![p] = [NoProc EXCEPT !.pc = "held", !.name = d,
                                                       !.reusing_dir = reusing]]
  IN  /\ \/ /\ me.pc = "idle"
            /\ procs' = [procs EXCEPT ![p] = [NoProc EXCEPT !.pc = "iterate",
                                                          !.snapshot = tmp_dirs]]
            /\ UNCHANGED <<tmp_dirs, lock_holder>>
         \/ /\ me.pc = "iterate"
            /\ \E dent \in tmp_dirs \ me.visited :
                 LET got == _ostree_repo_try_lock_tmpdir(p, dent)
                 IN  IF got.did_lock
                     THEN locked(dent, TRUE)
                     ELSE /\ procs' = [procs EXCEPT ![p].visited = @ \cup {dent}]
                          /\ UNCHANGED lock_holder
            /\ UNCHANGED tmp_dirs
         \/ /\ me.pc = "iterate"
            /\ (me.snapshot \cap tmp_dirs) \subseteq me.visited
            /\ procs' = [procs EXCEPT ![p] = [NoProc EXCEPT !.pc = "mkdtemp"]]
            /\ UNCHANGED <<tmp_dirs, lock_holder>>
         \/ /\ me.pc = "mkdtemp"
            /\ \E template \in TmpNames \ tmp_dirs :
                 /\ tmp_dirs' = tmp_dirs \cup {template}
                 /\ procs' = [procs EXCEPT ![p] = [me EXCEPT !.pc = "lock_new",
                                                            !.name = template]]
            /\ UNCHANGED lock_holder
         \/ /\ me.pc = "lock_new"
            /\ LET got == _ostree_repo_try_lock_tmpdir(p, me.name)
               IN  IF got.did_lock
                   THEN locked(me.name, FALSE)
                   ELSE UNCHANGED <<procs, lock_holder>>
            /\ UNCHANGED tmp_dirs
      /\ UNCHANGED <<storeVars, handleVars, remoteVars, obj, last, notStagingVars>>

\* _ostree_repo_allocate_tmpdir by process p, one system call at a time:
\* the directory iterator returns the entries of tmp/ in any order and
\* need not return those created after it was opened; the first loop
\* reuses a directory whose lock it gets, the second creates directories
\* until it gets the lock of one
_ostree_repo_allocate_tmpdir(p) ==
  LET me == procs[p]
      locked(d, reusing) ==
        /\ lock_holder' = [lock_holder EXCEPT ![d] = p]
        /\ procs' = [procs EXCEPT ![p] = [NoProc EXCEPT !.pc = "held", !.name = d,
                                                       !.reusing_dir = reusing]]
  IN  /\ \/ /\ me.pc = "idle"
            /\ procs' = [procs EXCEPT ![p] = [NoProc EXCEPT !.pc = "iterate",
                                                          !.snapshot = tmp_dirs]]
            /\ UNCHANGED <<tmp_dirs, lock_holder>>
         \/ /\ me.pc = "iterate"
            /\ \E dent \in tmp_dirs \ me.visited :
                 LET got == _ostree_repo_try_lock_tmpdir(p, dent)
                 IN  IF got.did_lock
                     THEN locked(dent, TRUE)
                     ELSE /\ procs' = [procs EXCEPT ![p].visited = @ \cup {dent}]
                          /\ UNCHANGED lock_holder
            /\ UNCHANGED tmp_dirs
         \/ /\ me.pc = "iterate"
            /\ (me.snapshot \cap tmp_dirs) \subseteq me.visited
            /\ procs' = [procs EXCEPT ![p] = [NoProc EXCEPT !.pc = "mkdtemp"]]
            /\ UNCHANGED <<tmp_dirs, lock_holder>>
         \/ /\ me.pc = "mkdtemp"
            /\ \E template \in TmpNames \ tmp_dirs :
                 /\ tmp_dirs' = tmp_dirs \cup {template}
                 /\ procs' = [procs EXCEPT ![p] = [me EXCEPT !.pc = "lock_new",
                                                            !.name = template]]
            /\ UNCHANGED lock_holder
         \/ /\ me.pc = "lock_new"
            /\ LET got == _ostree_repo_try_lock_tmpdir(p, me.name)
               IN  IF got.did_lock
                   THEN locked(me.name, FALSE)
                   ELSE /\ procs' = [procs EXCEPT ![p].pc = "mkdtemp"]
                        /\ UNCHANGED lock_holder
            /\ UNCHANGED tmp_dirs
      /\ UNCHANGED <<storeVars, handleVars, remoteVars, obj, last, notStagingVars>>

\* The caller is done with its staging directory: glnx_release_lock_file
\* drops the lock and the directory stays for the next caller
glnx_release_lock_file(p) ==
  /\ procs[p].pc = "held"
  /\ lock_holder' = [lock_holder EXCEPT ![procs[p].name] = NULL]
  /\ procs' = [procs EXCEPT ![p] = NoProc]
  /\ UNCHANGED tmp_dirs
  /\ UNCHANGED <<storeVars, handleVars, remoteVars, obj, last, notStagingVars>>

\* The process ends: the kernel drops its lock with its descriptors, the
\* directory stays, and the process makes no further call
process_exit(p) ==
  /\ procs[p].pc = "held"
  /\ lock_holder' = [lock_holder EXCEPT ![procs[p].name] = NULL]
  /\ procs' = [procs EXCEPT ![p] = [NoProc EXCEPT !.pc = "exited"]]
  /\ UNCHANGED tmp_dirs
  /\ UNCHANGED <<storeVars, handleVars, remoteVars, obj, last, notStagingVars>>

InitStaging ==
  /\ tmp_dirs = {}
  /\ lock_holder = [d \in TmpNames |-> NULL]
  /\ procs = [p \in Procs |-> NoProc]

----------------------------------------------------------------------------
(* Signing commits and the summary; the summary builder                    *)

\* GPG key IDs; the secret keys of "k1" and "k2" are in the home directory
KeyIds == {"k0", "k1", "k2"}
SecretKeys == {"k1", "k2"}
\* The key_id arrays handed to ostree_repo_add_gpg_signature_summary
KeyIdLists == {<<k>> : k \in KeyIds} \cup {<<k, l>> : k, l \in KeyIds}
MaxSigs == 2
MaxGen == 2

\* A detached-metadata dictionary a{sv}: none, or one with or without the
\* key ostree.gpgsigs
NoMetadata == [is_null |-> TRUE, has_gpgsigs |-> FALSE, gpgsigs |-> <<>>]
OtherMetadata == [is_null |-> FALSE, has_gpgsigs |-> FALSE, gpgsigs |-> <<>>]
Signature(key_id, data) == [key |-> key_id, data |-> data]

\* sign_data: gpgme_get_key finds no secret key, or gpgme_op_sign makes a
\* detached signature over the data
sign_data(data, key_id) ==
  [ret |-> IF key_id \in SecretKeys THEN "ok" ELSE "no_key",
   signature |-> Signature(key_id, data)]

_ostree_detached_metadata_append_gpg_sig(existing_metadata, signature_bytes) ==
  [is_null |-> FALSE, has_gpgsigs |-> TRUE,
   gpgsigs |-> Append(existing_metadata.gpgsigs, signature_bytes)]

\* _ostree_repo_gpg_verify_with_metadata as ostree_repo_sign_commit uses
\* it: not-found without ostree.gpgsigs, else the key IDs of the signatures
_ostree_repo_gpg_verify_with_metadata(metadata) ==
  IF metadata.is_null \/ ~metadata.has_gpgsigs
  THEN [ret |-> "not_found", keys |-> {}]
  ELSE [ret |-> "ok",
        keys |-> {metadata.gpgsigs[i].key : i \in 1..Len(metadata.gpgsigs)}]

\* Faulty variant: the commit is signed whatever signatures it has
Mut_sign_commit_result_no_lookup(self, commit_checksum, key_id) ==
  LET commit == ostree_repo_load_variant(self, COMMIT, commit_checksum)
      old == read_commit_detached_metadata(self, commit_checksum)
      old_metadata == IF old.ret = "ok" THEN commitmeta ELSE NoMetadata
      signed == sign_data(commit_checksum, key_id)
  IN  IF commit.ret # "ok" THEN [ret |-> commit.ret, new_metadata |-> old_metadata]
      ELSE IF signed.ret # "ok" THEN [ret |-> signed.ret, new_metadata |-> old_metadata]
      ELSE [ret |-> "ok", new_metadata |->
              _ostree_detached_metadata_append_gpg_sig(old_metadata, signed.signature)]

\* ostree_repo_sign_commit up to the write: what it returns and the
\* detached metadata it writes
sign_commit_result(self, commit_checksum, key_id) ==
  LET commit == ostree_repo_load_variant(self, COMMIT, commit_checksum)
      old == read_commit_detached_metadata(self, commit_checksum)
      old_metadata == IF old.ret = "ok" THEN commitmeta ELSE NoMetadata
      result == _ostree_repo_gpg_verify_with_metadata(old_metadata)
      signed == sign_data(commit_checksum, key_id)
  IN  IF commit.ret # "ok" THEN [ret |-> commit.ret, new_metadata |-> old_metadata]
      ELSE IF result.ret = "ok" /\ key_id \in result.keys
           THEN [ret |-> "exists", new_metadata |-> old_metadata]
      ELSE IF signed.ret # "ok" THEN [ret |-> signed.ret, new_metadata |-> old_metadata]
      ELSE [ret |-> "ok", new_metadata |->
              _ostree_detached_metadata_append_gpg_sig(old_metadata, signed.signature)]

\* A signing or summary call: its key IDs, its return, and whether
\* summary.sig existed when it was made
SignCall(op, keys, ret) ==
  [op |-> op, keys |-> keys, ret |-> ret, had_sig |-> ~summary_sig.is_null]

\* ostree_repo_sign_commit: ostree_repo_write_commit_detached_metadata
\* replaces the commitmeta file
ostree_repo_sign_commit(self, commit_checksum, key_id) ==
  LET got == sign_commit_result(self, commit_checksum, key_id)
      path == _ostree_loose_path(commit_checksum, COMMIT_META, mode[self])
      dest == IF got.ret = "ok" THEN DetachedDest(self) ELSE "none"
  IN  /\ commitmeta' = IF got.ret = "ok" THEN got.new_metadata ELSE commitmeta
      /\ objects_dir' = [objects_dir EXCEPT ![self] = @ \cup Added(dest, "objects", {path})]
      /\ stage_dir' = [stage_dir EXCEPT ![self] = @ \cup Added(dest, "stage", {path})]
      /\ sign_last' = SignCall("sign_commit", <<key_id>>, got.ret)
      /\ UNCHANGED <<mode, parent_repo, owner_uid, tombstone_commits, commit_stagedir_fd, written>>
      /\ UNCHANGED <<ref_store, summary, summary_sig>>
      /\ UNCHANGED <<obj, last, remoteVars, handleVars, notSignVars>>

\* The file summary: absent, or the variant (refs, metadata) written at
\* the time gen
NoSummary == [present |-> FALSE, gen |-> 0, refs |-> <<>>, collection_id |-> <<>>,
              collection_map |-> <<>>]
\* The file summary.sig: absent (OT_VARIANT_MAP_ALLOW_NOENT leaves
\* existing_signatures NULL), or a detached-metadata dictionary
NoSummarySig == NoMetadata

\* The signing loop of ostree_repo_add_gpg_signature_summary: every pass
\* appends its signature to existing_signatures and assigns new_metadata
RECURSIVE sign_summary_loop(_, _, _, _)
sign_summary_loop(summary_data, existing_signatures, key_id, new_metadata) ==
  IF key_id = <<>> THEN [ret |-> "ok", new_metadata |-> new_metadata]
  ELSE LET signed == sign_data(summary_data, Head(key_id))
       IN  IF signed.ret # "ok" THEN [ret |-> signed.ret, new_metadata |-> new_metadata]
           ELSE sign_summary_loop(summary_data, existing_signatures, Tail(key_id),
                  _ostree_detached_metadata_append_gpg_sig(existing_signatures,
                                                           signed.signature))

\* ostree_repo_add_gpg_signature_summary with a key_id array of at least
\* one key
ostree_repo_add_gpg_signature_summary(self, key_id) ==
  LET got == IF ~summary.present THEN [ret |-> "not_found", new_metadata |-> NoMetadata]
             ELSE sign_summary_loop(summary.gen, summary_sig, key_id, NoMetadata)
  IN  /\ Len(summary_sig.gpgsigs) < MaxSigs
      /\ summary_sig' = IF got.ret = "ok" THEN got.new_metadata ELSE summary_sig
      /\ sign_last' = SignCall("add_gpg_signature_summary", key_id, got.ret)
      /\ UNCHANGED <<ref_store, summary, commitmeta>>
      /\ UNCHANGED <<storeVars, obj, last, remoteVars, handleVars, notSignVars>>

\* Ref names "a" and "b", the remote ref "o:a", collection IDs "c" and "d"
RefNames == {<<97>>, <<98>>}
RemoteRefs == {<<111, 58, 97>>}
CollectionIds == {<<99>>, <<100>>}
NoCollectionId == <<>>
\* The orders in which the hash tables of refs and of collection IDs may
\* hand out their keys
HashOrders ==
  {refs \o ids : refs \in Orders(RefNames \cup RemoteRefs), ids \in Orders(CollectionIds)}

\* ostree_repo_list_refs: refs/heads and refs/remotes; and
\* ostree_repo_list_collection_refs: refs/mirrors, and refs/heads under
\* the collection ID of the repo when it has one
ostree_repo_list_refs(self) == ref_store.heads \cup ref_store.remotes
ostree_repo_list_collection_refs(self) ==
  ref_store.mirrors \cup
  (IF ref_store.collection_id # NoCollectionId
   THEN {<<ref_store.collection_id, ref>> : ref \in ref_store.heads} ELSE {})

\* g_hash_table_get_keys: the keys in the order the table hands them out
g_hash_table_get_keys(table, order) == SelectSeq(order, LAMBDA key : key \in table)

\* summary_add_ref_entry for the refs of a list in turn: a ref with a
\* remote name is left out, the commit of any other ref is loaded and the
\* ref appended to the builder
RECURSIVE summary_add_ref_entry(_, _, _, _)
summary_add_ref_entry(self, refs, checksum, refs_builder) ==
  IF refs = <<>> THEN [ret |-> "ok", builder |-> refs_builder]
  ELSE LET ref == Head(refs)
           remotename == \E i \in 1..Len(ref) : ref[i] = 58
           commit_obj == ostree_repo_load_variant(self, COMMIT, checksum)
       IN  IF remotename
           THEN summary_add_ref_entry(self, Tail(refs), checksum, refs_builder)
           ELSE IF commit_obj.ret # "ok"
                THEN [ret |-> commit_obj.ret, builder |-> refs_builder]
           ELSE summary_add_ref_entry(self, Tail(refs), checksum,
                                      Append(refs_builder, ref))

\* The loop of ostree_repo_regenerate_summary over the sorted collection
\* IDs: the refs of the repo's own collection go to refs_builder, those of
\* any other to a new entry of collection_refs_builder
RECURSIVE summary_add_collections(_, _, _, _, _)
summary_add_collections(self, ordered_collection_ids, collection_refs, order, built) ==
  IF ordered_collection_ids = <<>> \/ built.ret # "ok" THEN built
  ELSE LET collection_id == Head(ordered_collection_ids)
           ref_map == {cr[2] : cr \in {c \in collection_refs : c[1] = collection_id}}
           main_collection_id == ref_store.collection_id
           is_main_collection_id ==
             main_collection_id # NoCollectionId /\ collection_id = main_collection_id
           ordered_refs == g_list_sort(g_hash_table_get_keys(ref_map, order))
           added == summary_add_ref_entry(self, ordered_refs, obj[2],
                      IF is_main_collection_id THEN built.refs ELSE <<>>)
       IN  summary_add_collections(self, Tail(ordered_collection_ids), collection_refs, order,
             IF is_main_collection_id
             THEN [built EXCEPT !.ret = added.ret, !.refs = added.builder]
             ELSE [built EXCEPT !.ret = added.ret,
                     !.collection_map = Append(@, [collection_id |-> collection_id,
                                                   refs |-> added.builder])])

\* ostree_repo_regenerate_summary up to the write: the refs array and the
\* collection map of the new summary
regenerate_summary_result(self, order) ==
  LET main_collection_id == ref_store.collection_id
      refs == ostree_repo_list_refs(self)
      ordered_keys == g_list_sort(g_hash_table_get_keys(refs, order))
      first == IF main_collection_id = NoCollectionId
               THEN summary_add_ref_entry(self, ordered_keys, obj[2], <<>>)
               ELSE [ret |-> "ok", builder |-> <<>>]
      collection_refs == ostree_repo_list_collection_refs(self)
      collection_map == {cr[1] : cr \in collection_refs}
      ordered_collection_ids == g_list_sort(g_hash_table_get_keys(collection_map, order))
  IN  summary_add_collections(self, ordered_collection_ids, collection_refs, order,
        [ret |-> first.ret, refs |-> first.builder, collection_map |-> <<>>])

\* Faulty variant: summary.sig is left where it is
Mut_regenerate_summary_keeps_sig(self, order) ==
  LET got == regenerate_summary_result(self, order)
  IN  /\ summary' = IF got.ret # "ok" THEN summary
                    ELSE [present |-> TRUE, gen |-> (summary.gen % MaxGen) + 1,
                          refs |-> got.refs, collection_id |-> ref_store.collection_id,
                          collection_map |-> got.collection_map]
      /\ UNCHANGED summary_sig
      /\ sign_last' = SignCall("regenerate_summary", <<>>, got.ret)
      /\ UNCHANGED <<ref_store, commitmeta>>
      /\ UNCHANGED <<storeVars, obj, last, remoteVars, handleVars, notSignVars>>

\* ostree_repo_regenerate_summary: the summary is replaced by one with a
\* new ostree.summary.last-modified and summary.sig is unlinked, ENOENT
\* being no error
ostree_repo_regenerate_summary(self, order) ==
  LET got == regenerate_summary_result(self, order)
  IN  /\ summary' = IF got.ret # "ok" THEN summary
                    ELSE [present |-> TRUE, gen |-> (summary.gen % MaxGen) + 1,
                          refs |-> got.refs, collection_id |-> ref_store.collection_id,
                          collection_map |-> got.collection_map]
      /\ summary_sig' = IF got.ret # "ok" THEN summary_sig ELSE NoSummarySig
      /\ sign_last' = SignCall("regenerate_summary", <<>>, got.ret)
      /\ UNCHANGED <<ref_store, commitmeta>>
      /\ UNCHANGED <<storeVars, obj, last, remoteVars, handleVars, notSignVars>>

NoRefs == [collection_id |-> NoCollectionId, heads |-> {}, remotes |-> {}, mirrors |-> {}]
InitSignVars ==
  /\ ref_store = NoRefs
  /\ summary = NoSummary
  /\ summary_sig = NoSummarySig
  /\ commitmeta = NoMetadata
  /\ sign_last = [op |-> "none", keys |-> <<>>, ret |-> "none", had_sig |-> FALSE]

----------------------------------------------------------------------------
(* Opening, creating and reloading a repo handle                           *)

\* The core group of a config file: whether the file is there, core/mode,
\* core/parent and core/fsync (NoKey when the key is not set)
ModeStrings == {"bare", "bare-user", "bare-user-only", "archive-z2", "archive", "bogus"}
ParentPaths == {"", "B", "C", "nowhere"}
ConfigFile(mode_str, parent_path) ==
  [present |-> TRUE, mode |-> mode_str, parent |-> parent_path, fsync |-> NoKey]
NoConfig == [present |-> FALSE, mode |-> NoKey, parent |-> NoKey, fsync |-> NoKey]

\* The repo directory itself and state_dirs of ostree_repo_create: the two
\* ostree_repo_open looks at, and "refs" for the others
RepoDir == "."
StateDirs == {"objects", "tmp", "refs"}

NoDirFds == [repo_dir_fd |-> NoFd, objects_dir_fd |-> NoFd, tmp_dir_fd |-> NoFd]
RepoDirFd == 3
ObjectsDirFd == 4
TmpDirFd == 5

ostree_repo_mode_to_string(m) ==
  CASE m = MODE_BARE -> [ret |-> "ok", str |-> "bare"]
    [] m = MODE_BARE_USER -> [ret |-> "ok", str |-> "bare-user"]
    [] m = MODE_BARE_USER_ONLY -> [ret |-> "ok", str |-> "bare-user-only"]
    [] m = MODE_ARCHIVE_Z2 -> [ret |-> "ok", str |-> "archive-z2"]
    [] OTHER -> [ret |-> "invalid_mode", str |-> NoKey]

ostree_repo_mode_from_string(str) ==
  CASE str = "bare" -> [ret |-> "ok", mode |-> MODE_BARE]
    [] str = "bare-user" -> [ret |-> "ok", mode |-> MODE_BARE_USER]
    [] str = "bare-user-only" -> [ret |-> "ok", mode |-> MODE_BARE_USER_ONLY]
    [] str \in {"archive-z2", "archive"} -> [ret |-> "ok", mode |-> MODE_ARCHIVE_Z2]
    [] OTHER -> [ret |-> "invalid_mode", mode |-> NULL]

\* An empty key file: g_key_file_new
EmptyKeyFile == [present |-> TRUE, mode |-> NoKey, parent |-> NoKey, fsync |-> NoKey]

\* reload_core_config on the config file as it is in the repo directory:
\* what the call returns and what it leaves in self->config, self->mode,
\* self->disable_fsync and self->parent_repo. core/fsync is read after
\* core/mode and before core/parent, and ostree_repo_set_disable_fsync is
\* called only when it is false. The repos "B" and "C" can be opened, no
\* repo is at any other path.
reload_core_config(self, file) ==
  LET keep == [ret |-> "ok", config |-> file, mode |-> mode[self],
               parent_repo |-> parent_repo[self],
               disable_fsync |-> disable_fsync[self]]
      mode_str == IF file.mode = NoKey THEN "bare" ELSE file.mode
      parsed == ostree_repo_mode_from_string(mode_str)
      do_fsync == file.fsync # "false"
      read == [keep EXCEPT !.mode = parsed.mode,
                           !.disable_fsync = IF ~do_fsync THEN TRUE ELSE @]
  IN  IF ~file.present
      THEN [keep EXCEPT !.ret = "ENOENT", !.config = EmptyKeyFile]
      ELSE IF parsed.ret # "ok"
      THEN [keep EXCEPT !.ret = parsed.ret]
      ELSE IF file.parent \in {NoKey, ""}
      THEN read
      ELSE [read EXCEPT !.parent_repo = file.parent,
                        !.ret = IF file.parent \in Repos THEN "ok" ELSE "parent_error"]

\* ostree_repo_reload_config: reload_core_config, then reload_remote_config
\* when that succeeded. The call is made by ostree_repo_open and, after it,
\* on the opened handle.
reload_config_result(self, file, files) ==
  LET core == reload_core_config(self, file)
      loaded == reload_remote_config(self, files)
  IN  IF core.ret # "ok"
      THEN [ret |-> core.ret, core |-> core, reg |-> remotes[self],
            options |-> remote_options[self]]
      ELSE [ret |-> loaded.ret, core |-> core, reg |-> loaded.reg,
            options |-> RemoteOptionsOf(self, loaded.reg)]

ostree_repo_reload_config(self, files) ==
  LET r == reload_config_result(self, disk[self].config, files)
  IN  /\ ~ListBusy
      /\ inited[self]
      /\ config' = [config EXCEPT ![self] = r.core.config]
      /\ mode' = [mode EXCEPT ![self] = r.core.mode]
      /\ parent_repo' = [parent_repo EXCEPT ![self] = r.core.parent_repo]
      /\ disable_fsync' = [disable_fsync EXCEPT ![self] = r.core.disable_fsync]
      /\ remotes' = [remotes EXCEPT ![self] = r.reg]
      /\ remote_options' = [remote_options EXCEPT ![self] = r.options]
      /\ last' = RemoteCall("reload_config", self, <<>>, r.ret, "none")
      /\ UNCHANGED <<inited, writable, writable_error, dir_fds, disk, user_xattrs>>
      /\ UNCHANGED <<owner_uid, tombstone_commits, commit_stagedir_fd, objects_dir,
                     stage_dir, written, obj, otherVars, config_remotes, remotes_d,
                     remotes_d_dir, group_options, rl>>

\* Faulty variant: an objects/ that is not writable fails the open.
Mut_open_result_fatal(self, d, files) ==
  LET reload == reload_config_result(self, d.config, files)
      none == [ret |-> "ok", inited |-> FALSE, dir_fds |-> dir_fds[self],
               writable |-> writable[self], writable_error |-> writable_error[self],
               dirs |-> d.dirs, reloaded |-> FALSE, reload |-> reload]
      tmp == [none EXCEPT !.dir_fds = [repo_dir_fd |-> RepoDirFd,
                                       objects_dir_fd |-> ObjectsDirFd,
                                       tmp_dir_fd |-> TmpDirFd],
                          !.writable = TRUE, !.writable_error = "none",
                          !.dirs = d.dirs \cup {"tmp"}, !.reloaded = TRUE]
  IN  IF {RepoDir, "objects"} \subseteq d.dirs /\ d.objects_writable
      THEN (IF reload.ret # "ok" THEN [tmp EXCEPT !.ret = reload.ret]
            ELSE [tmp EXCEPT !.inited = TRUE])
      ELSE [none EXCEPT !.ret = IF {RepoDir, "objects"} \subseteq d.dirs
                                THEN "EACCES" ELSE "ENOENT"]

\* ostree_repo_open on the repo directory d, an open that the early return
\* for an initialized handle did not end: what it returns and what it
\* leaves in the handle and in the directory
open_result(self, d, files) ==
  LET w == d.objects_writable
      dirs == IF w THEN d.dirs \cup {"tmp"} ELSE d.dirs
      reload == reload_config_result(self, d.config, files)
      none == [ret |-> "ok", inited |-> FALSE, dir_fds |-> dir_fds[self],
               writable |-> writable[self], writable_error |-> writable_error[self],
               dirs |-> d.dirs, reloaded |-> FALSE, reload |-> reload]
      objects == [none EXCEPT !.dir_fds.repo_dir_fd = RepoDirFd,
                              !.dir_fds.objects_dir_fd = ObjectsDirFd,
                              !.writable = w,
                              !.writable_error = IF w THEN "none" ELSE "EACCES",
                              !.dirs = dirs]
      tmp == [objects EXCEPT !.dir_fds.tmp_dir_fd = TmpDirFd, !.reloaded = TRUE]
  IN  IF RepoDir \notin d.dirs THEN [none EXCEPT !.ret = "ENOENT"]
      ELSE IF "objects" \notin d.dirs
      THEN [none EXCEPT !.ret = "ENOENT", !.dir_fds.repo_dir_fd = RepoDirFd]
      ELSE IF "tmp" \notin dirs THEN [objects EXCEPT !.ret = "ENOENT"]
      ELSE IF reload.ret # "ok" THEN [tmp EXCEPT !.ret = reload.ret]
      ELSE [tmp EXCEPT !.inited = TRUE]

\* The handle and the directory after open_result o of a call op made
\* with the argument arg
opened(op, self, arg, d, o) ==
  /\ inited' = [inited EXCEPT ![self] = o.inited]
  /\ dir_fds' = [dir_fds EXCEPT ![self] = o.dir_fds]
  /\ writable' = [writable EXCEPT ![self] = o.writable]
  /\ writable_error' = [writable_error EXCEPT ![self] = o.writable_error]
  /\ disk' = [disk EXCEPT ![self] = [d EXCEPT !.dirs = o.dirs]]
  /\ IF o.reloaded
     THEN /\ config' = [config EXCEPT ![self] = o.reload.core.config]
          /\ mode' = [mode EXCEPT ![self] = o.reload.core.mode]
          /\ parent_repo' = [parent_repo EXCEPT ![self] = o.reload.core.parent_repo]
          /\ disable_fsync' = [disable_fsync EXCEPT ![self] =
                                 o.reload.core.disable_fsync]
          /\ remotes' = [remotes EXCEPT ![self] = o.reload.reg]
          /\ remote_options' = [remote_options EXCEPT ![self] = o.reload.options]
     ELSE UNCHANGED <<config, mode, parent_repo, disable_fsync, remotes, remote_options>>
  /\ last' = [Call(op, self, NULL, "none", "none", o.ret, "opened")
                EXCEPT !.value = arg]
  /\ UNCHANGED <<owner_uid, tombstone_commits, commit_stagedir_fd, objects_dir,
                 stage_dir, written, obj, otherVars, config_remotes, remotes_d,
                 remotes_d_dir, group_options, rl, user_xattrs>>

\* Faulty variant: no early return for an initialized handle.
Mut_ostree_repo_open_again(self, files) ==
  /\ ~ListBusy
  /\ opened("open", self, "none", disk[self], open_result(self, disk[self], files))

ostree_repo_open(self, files) ==
  /\ ~ListBusy
  /\ IF inited[self]
     THEN /\ last' = Call("open", self, NULL, "none", "none", "ok", "inited")
          /\ UNCHANGED <<handleVars, storeVars, obj, otherVars, remoteVars>>
     ELSE opened("open", self, "none", disk[self], open_result(self, disk[self], files))

\* Faulty variant: the config file is written whether it is there or not.
Mut_ostree_repo_create_overwrites(self, m, files) ==
  LET mode_str == ostree_repo_mode_to_string(m)
      complete == [disk[self] EXCEPT !.dirs = {RepoDir} \cup StateDirs,
                                     !.config = ConfigFile(mode_str.str, NoKey)]
  IN  /\ ~ListBusy
      /\ IF m = MODE_BARE_USER /\ ~user_xattrs
         THEN /\ disk' = [disk EXCEPT ![self] = complete]
              /\ last' = [Call("create", self, NULL, "none", "none", "ENOTSUP", "none")
                            EXCEPT !.value = m]
              /\ UNCHANGED <<inited, writable, writable_error, config, dir_fds,
                             user_xattrs, disable_fsync, storeVars, obj, otherVars, remoteVars>>
         ELSE IF inited[self]
         THEN /\ disk' = [disk EXCEPT ![self] = complete]
              /\ last' = [Call("create", self, NULL, "none", "none", "ok", "inited")
                            EXCEPT !.value = m]
              /\ UNCHANGED <<inited, writable, writable_error, config, dir_fds,
                             user_xattrs, disable_fsync, storeVars, obj, otherVars, remoteVars>>
         ELSE opened("create", self, m, complete, open_result(self, complete, files))

\* ostree_repo_create
ostree_repo_create(self, m, files) ==
  LET d == disk[self]
      mode_str == ostree_repo_mode_to_string(m)
      made == [d EXCEPT !.dirs = @ \cup {RepoDir}]
      written_config == IF d.config.present THEN made
                        ELSE [made EXCEPT !.config = ConfigFile(mode_str.str, NoKey)]
      complete == [written_config EXCEPT !.dirs = @ \cup StateDirs]
      failed(ret, dd) ==
        /\ disk' = [disk EXCEPT ![self] = dd]
        /\ last' = [Call("create", self, NULL, "none", "none", ret, "none")
                      EXCEPT !.value = m]
        /\ UNCHANGED <<inited, writable, writable_error, config, dir_fds, user_xattrs, disable_fsync,
                       storeVars, obj, otherVars, remoteVars>>
  IN  /\ ~ListBusy
      /\ IF ~d.config.present /\ mode_str.ret # "ok" THEN failed(mode_str.ret, made)
         ELSE IF m = MODE_BARE_USER /\ ~user_xattrs THEN failed("ENOTSUP", complete)
         ELSE IF inited[self]
         THEN /\ disk' = [disk EXCEPT ![self] = complete]
              /\ last' = [Call("create", self, NULL, "none", "none", "ok", "inited")
                            EXCEPT !.value = m]
              /\ UNCHANGED <<inited, writable, writable_error, config, dir_fds,
                             user_xattrs, disable_fsync, storeVars, obj, otherVars, remoteVars>>
         ELSE opened("create", self, m, complete, open_result(self, complete, files))

\* ostree_repo_is_writable: self->writable, with self->writable_error
ostree_repo_is_writable(self) ==
  /\ ~ListBusy
  /\ inited[self]
  /\ last' = [Call("is_writable", self, NULL, "none", "none",
                   IF writable[self] THEN "TRUE" ELSE "FALSE", "none")
                EXCEPT !.value = writable_error[self]]
  /\ UNCHANGED <<handleVars, storeVars, obj, otherVars, remoteVars>>

\* ostree_repo_get_parent
ostree_repo_get_parent(self) == parent_repo[self]

\* The config file of the repo is rewritten from outside the handle
config_file_written(self, file) ==
  /\ ~ListBusy
  /\ disk[self].config.present
  /\ file # disk[self].config
  /\ disk' = [disk EXCEPT ![self].config = file]
  /\ last' = Call("config_written", self, NULL, "none", "none", "ok", "none")
  /\ UNCHANGED <<inited, writable, writable_error, config, dir_fds, user_xattrs, disable_fsync,
                 storeVars, obj, otherVars, remoteVars>>

\* The permissions of objects/ are changed from outside the handle
objects_chmod(self) ==
  /\ ~ListBusy
  /\ "objects" \in disk[self].dirs
  /\ disk' = [disk EXCEPT ![self].objects_writable = ~@]
  /\ last' = Call("chmod", self, NULL, "none", "none", "ok", "none")
  /\ UNCHANGED <<inited, writable, writable_error, config, dir_fds, user_xattrs, disable_fsync,
                 storeVars, obj, otherVars, remoteVars>>

\* A config file with core/fsync set
ConfigFileFsync(mode_str, parent_path, fsync) ==
  [ConfigFile(mode_str, parent_path) EXCEPT !.fsync = fsync]

\* _ostree_repo_file_replace_contents: the flag it passes to
\* glnx_file_replace_contents_at
_ostree_repo_file_replace_contents(self) ==
  IF disable_fsync[self] THEN "GLNX_FILE_REPLACE_NODATASYNC"
  ELSE "GLNX_FILE_REPLACE_DATASYNC_NEW"

\* A file of the repo is replaced through the handle
file_replace_contents_call(self) ==
  /\ ~ListBusy
  /\ inited[self]
  /\ last' = [Call("file_replace_contents", self, NULL, "none", "none", "ok", "none")
                EXCEPT !.value = _ostree_repo_file_replace_contents(self)]
  /\ UNCHANGED <<handleVars, storeVars, obj, otherVars, remoteVars>>

\* A handle that ostree_repo_open has initialized on a complete repo
\* directory whose config says what the handle holds
InitHandles ==
  /\ inited = [r \in Repos |-> TRUE]
  /\ writable = [r \in Repos |-> TRUE]
  /\ writable_error = [r \in Repos |-> "none"]
  /\ config = [r \in Repos |->
                 ConfigFile(ostree_repo_mode_to_string(mode[r]).str,
                            IF parent_repo[r] = NULL THEN NoKey ELSE parent_repo[r])]
  /\ dir_fds = [r \in Repos |-> [repo_dir_fd |-> RepoDirFd,
                                 objects_dir_fd |-> ObjectsDirFd,
                                 tmp_dir_fd |-> TmpDirFd]]
  /\ disk = [r \in Repos |-> [config |-> config[r], dirs |-> {RepoDir} \cup StateDirs,
                              objects_writable |-> TRUE]]
  /\ user_xattrs = TRUE
  /\ disable_fsync = [r \in Repos |-> FALSE]

----------------------------------------------------------------------------
(* ostree_repo_open of a new handle and of the parents its config names    *)

\* The descriptors an open holds when it comes to the config: repo_dir_fd,
\* objects_dir_fd and tmp_dir_fd
FdsPerOpen == 3
\* RLIMIT_NOFILE of the process: fewer descriptors than the opens the stack
\* has room for would take, or more
RlimitNofile == {FdsPerOpen * 2, FdsPerOpen * (MaxStack + 2)}
NoOpen == [pc |-> "idle", chain |-> <<>>, fds |-> 0, nofile |-> 0, ret |-> "none"]

\* ostree_repo_new and ostree_repo_open on the repo at path, in a process
\* whose descriptor limit is nofile
ostree_repo_open_new(path, nofile) ==
  /\ po.pc = "idle"
  /\ po' = [NoOpen EXCEPT !.pc = "opening", !.chain = <<path>>, !.nofile = nofile]
  /\ UNCHANGED <<storeVars, handleVars, remoteVars, obj, last, notParentVars>>

\* One ostree_repo_open up to the parent key of reload_core_config: the
\* directories are opened, the config is parsed, and a core/parent that is
\* not empty names the repo to open next
open_frame(path, chain) ==
  LET d == disk[path]
      file == d.config
      mode_str == IF file.mode = NoKey THEN "bare" ELSE file.mode
      is_dir == path \in Repos
  IN  IF ~is_dir \/ ~({RepoDir, "objects", "tmp"} \subseteq d.dirs)
      THEN [ret |-> "ENOENT", fds |-> 0, parent |-> NULL]
      ELSE IF ~file.present THEN [ret |-> "ENOENT", fds |-> FdsPerOpen, parent |-> NULL]
      ELSE IF ostree_repo_mode_from_string(mode_str).ret # "ok"
           THEN [ret |-> "invalid_mode", fds |-> FdsPerOpen, parent |-> NULL]
      ELSE [ret |-> "ok", fds |-> FdsPerOpen,
            parent |-> IF file.parent \in {NoKey, ""} THEN NULL ELSE file.parent]

\* The innermost ostree_repo_open runs: it fails with EMFILE when the
\* process has no descriptors left, returns when it fails or has no
\* parent to open (every open above it then returns the same), and else
\* calls ostree_repo_open on a new handle for the parent
ostree_repo_open_parent ==
  LET path == po.chain[Len(po.chain)]
      frame == open_frame(path, po.chain)
  IN  /\ po.pc = "opening"
      /\ IF path \in Repos /\ po.fds + FdsPerOpen > po.nofile
         THEN po' = [po EXCEPT !.pc = "returned", !.ret = "EMFILE"]
         ELSE IF frame.ret # "ok" \/ frame.parent = NULL
         THEN po' = [po EXCEPT !.pc = "returned", !.ret = frame.ret,
                               !.fds = @ + frame.fds]
         ELSE /\ Len(po.chain) < MaxStack
              /\ po' = [po EXCEPT !.chain = Append(@, frame.parent),
                                  !.fds = @ + frame.fds]
      /\ UNCHANGED <<storeVars, handleVars, remoteVars, obj, last, notParentVars>>

\* The stack has no room for the open of one more parent: the process dies
ostree_repo_open_overflow ==
  LET path == po.chain[Len(po.chain)]
      frame == open_frame(path, po.chain)
  IN  /\ po.pc = "opening"
      /\ Len(po.chain) = MaxStack
      /\ ~(path \in Repos /\ po.fds + FdsPerOpen > po.nofile)
      /\ frame.ret = "ok" /\ frame.parent # NULL
      /\ po' = [po EXCEPT !.pc = "crashed"]
      /\ UNCHANGED <<storeVars, handleVars, remoteVars, obj, last, notParentVars>>

\* The caller drops the handle it opened or failed to open
ostree_repo_open_done ==
  /\ po.pc = "returned"
  /\ po' = NoOpen
  /\ UNCHANGED <<storeVars, handleVars, remoteVars, obj, last, notParentVars>>

\* What the specifications that do not use them hold in the variables of
\* the other parts of the model
----------------------------------------------------------------------------
(* Threads on the remotes of one handle                                    *)

NoOp == [pc |-> "idle", op |-> "none", name |-> <<>>, url |-> NoKey,
         groups |-> <<>>, queue |-> <<>>, added |-> {}, where |-> "none",
         before |-> [n \in RemoteNames |-> NoRemote], ret |-> "none",
         if_not_exists |-> FALSE]
InitReg == remotes_lock = NULL /\ rt = [t \in Threads |-> NoOp]

RegFrame == UNCHANGED <<handleVars, storeVars, obj, notRegVars, remotes_d_dir, rl>>

\* ostree_repo_remote_list up to the snapshot of the keys, which is taken
\* with remotes_lock held
remote_list_keys(t, self) ==
  /\ rt[t] = NoOp
  /\ remotes_lock = NULL
  /\ last' = [RemoteCall("list_keys", self, <<>>, "ok", t)
                EXCEPT !.value = RemoteKeys(self)]
  /\ UNCHANGED <<remotes, config_remotes, remotes_d, remote_options, group_options,
                 regVars>>
  /\ RegFrame

\* impl_repo_remote_add run by thread t, up to the early returns:
\* _ostree_repo_get_remote looks the name up with remotes_lock held and
\* releases the lock before it returns
remote_add_lookup(t, self, if_not_exists, name, url) ==
  LET exists == remotes[self][name] # NoRemote
      call == [NoOp EXCEPT !.op = "add", !.name = name, !.url = url,
                           !.if_not_exists = if_not_exists,
                           !.where = IF remotes_d_dir[self] THEN IN_REMOTES_D
                                     ELSE IN_CONFIG]
  IN  /\ rt[t] = NoOp
      /\ remotes_lock = NULL
      /\ rt' = [rt EXCEPT ![t] =
                  IF exists
                  THEN [call EXCEPT !.pc = "returned",
                                    !.ret = IF if_not_exists THEN "ok" ELSE "exists"]
                  ELSE [call EXCEPT !.pc = "persist"]]
      /\ UNCHANGED <<remotes, config_remotes, remotes_d, remote_options, group_options,
                     last, remotes_lock>>
      /\ RegFrame

\* g_file_replace_contents of <name>.conf in remotes.d, or
\* ostree_repo_write_config with the group of the remote copied in
remote_add_persist(t, self) ==
  LET me == rt[t]
  IN  /\ me.op = "add" /\ me.pc = "persist"
      /\ remotes_d' = IF me.where = IN_REMOTES_D
                      THEN [remotes_d EXCEPT ![self] = @ \cup {me.name}]
                      ELSE remotes_d
      /\ config_remotes' = IF me.where = IN_CONFIG
                           THEN [config_remotes EXCEPT ![self] = @ \cup {me.name}]
                           ELSE config_remotes
      /\ group_options' = [group_options EXCEPT ![self][me.where][me.name] = me.url]
      /\ rt' = [rt EXCEPT ![t].pc = "register"]
      /\ UNCHANGED <<remotes, remote_options, last, remotes_lock>>
      /\ RegFrame

\* _ostree_repo_add_remote: g_hash_table_replace with remotes_lock held,
\* whose result impl_repo_remote_add does not look at; return TRUE
_ostree_repo_add_remote(t, self) ==
  LET me == rt[t]
  IN  /\ me.op = "add" /\ me.pc = "register"
      /\ remotes_lock = NULL
      /\ remotes' = [remotes EXCEPT ![self][me.name] = me.where]
      /\ remote_options' = [remote_options EXCEPT ![self][me.name] = me.url]
      /\ rt' = [rt EXCEPT ![t].pc = "returned", ![t].ret = "ok"]
      /\ last' = RemoteCall("remote_add", self, me.name, "ok", me.where)
      /\ UNCHANGED <<config_remotes, remotes_d, group_options, remotes_lock>>
      /\ RegFrame

\* Faulty variant: the key file is processed without taking remotes_lock.
Mut_add_remotes_from_keyfile_no_lock(t, self, groups, where) ==
  /\ rt[t] = NoOp
  /\ rt' = [rt EXCEPT ![t] = [NoOp EXCEPT !.pc = "validate", !.op = "keyfile",
                                           !.groups = groups, !.where = where,
                                           !.before = remotes[self]]]
  /\ UNCHANGED <<remotes, config_remotes, remotes_d, remote_options, group_options,
                 last, remotes_lock>>
  /\ RegFrame

\* add_remotes_from_keyfile, g_mutex_lock and g_key_file_get_groups: the
\* groups of the key file in the order the key file has them
add_remotes_from_keyfile_lock(t, self, groups, where) ==
  /\ rt[t] = NoOp
  /\ remotes_lock = NULL
  /\ remotes_lock' = t
  /\ rt' = [rt EXCEPT ![t] = [NoOp EXCEPT !.pc = "validate", !.op = "keyfile",
                                           !.groups = groups, !.where = where,
                                           !.before = remotes[self]]]
  /\ UNCHANGED <<remotes, config_remotes, remotes_d, remote_options, group_options,
                 last>>
  /\ RegFrame

\* One pass of the first loop: the remote goes to the queue, and a name
\* that self->remotes contains ends the loop with the error
add_remotes_from_keyfile_validate(t, self) ==
  LET ii == Len(rt[t].queue)
      name == rt[t].groups[ii + 1]
  IN  /\ rt[t].op = "keyfile" /\ rt[t].pc = "validate"
      /\ rt' = [rt EXCEPT ![t] =
                  IF ii = Len(rt[t].groups) THEN [@ EXCEPT !.pc = "commit"]
                  ELSE IF remotes[self][name] # NoRemote
                  THEN [@ EXCEPT !.queue = Append(@, name), !.pc = "out",
                                 !.ret = "multiple"]
                  ELSE [@ EXCEPT !.queue = Append(@, name)]]
      /\ UNCHANGED <<remotes, config_remotes, remotes_d, remote_options, group_options,
                     last, remotes_lock>>
      /\ RegFrame

\* One pass of the second loop: g_queue_pop_head and g_hash_table_replace
add_remotes_from_keyfile_commit(t, self) ==
  /\ rt[t].op = "keyfile" /\ rt[t].pc = "commit"
  /\ IF rt[t].queue = <<>>
     THEN /\ rt' = [rt EXCEPT ![t].pc = "out", ![t].ret = "ok"]
          /\ UNCHANGED <<remotes, remote_options>>
     ELSE LET name == Head(rt[t].queue)
          IN  /\ remotes' = [remotes EXCEPT ![self][name] = rt[t].where]
              /\ remote_options' = [remote_options EXCEPT ![self][name] =
                                      group_options[self][rt[t].where][name]]
              /\ rt' = [rt EXCEPT ![t].queue = Tail(@), ![t].added = @ \cup {name}]
  /\ UNCHANGED <<config_remotes, remotes_d, group_options, last, remotes_lock>>
  /\ RegFrame

\* out: the queue is emptied, g_mutex_unlock, return
add_remotes_from_keyfile_unlock(t, self) ==
  /\ rt[t].op = "keyfile" /\ rt[t].pc = "out"
  /\ remotes_lock' = NULL
  /\ rt' = [rt EXCEPT ![t] = NoOp]
  /\ last' = [RemoteCall("add_remotes_from_keyfile", self, <<>>, rt[t].ret, rt[t].where)
                EXCEPT !.value = rt[t].groups]
  /\ UNCHANGED <<remotes, config_remotes, remotes_d, remote_options, group_options>>
  /\ RegFrame

NoKeyrings == [r \in Repos |-> [repodir |-> {}, remotes_d |-> {}]]
InitOther ==
  InitCache /\ InitStaging /\ InitSignVars /\ po = NoOpen /\ InitReg /\ keyrings = NoKeyrings

----------------------------------------------------------------------------
(* GPG verification: which keyrings the verifier is given                  *)

\* _ostree_repo_get_remote_inherited: the repo of the chain whose
\* self->remotes has the name, or NULL
RECURSIVE _ostree_repo_get_remote_inherited(_, _)
_ostree_repo_get_remote_inherited(self, name) ==
  IF _ostree_repo_get_remote(self, name) = "ok" THEN self
  ELSE IF parent_repo[self] # NULL
       THEN _ostree_repo_get_remote_inherited(parent_repo[self], name)
  ELSE NULL

\* A keyring file: the repo and the directory it was found in
KeyringFile(repo, dir) == [repo |-> repo, dir |-> dir]
NoFile == KeyringFile(NULL, "none")

\* Faulty variant: the keyring file is looked for in self only.
Mut_find_keyring_no_parent(self, name) ==
  IF name \in keyrings[self].repodir THEN KeyringFile(self, "repodir")
  ELSE IF remotes_d_dir[self] /\ name \in keyrings[self].remotes_d
       THEN KeyringFile(self, "remotes_d")
  ELSE NoFile

\* find_keyring: <name>.trustedkeys.gpg next to the repo, then in the
\* repo's remotes.d when it has one, then the same in the parent repo
RECURSIVE find_keyring(_, _)
find_keyring(self, name) ==
  IF name \in keyrings[self].repodir THEN KeyringFile(self, "repodir")
  ELSE IF remotes_d_dir[self] /\ name \in keyrings[self].remotes_d
       THEN KeyringFile(self, "remotes_d")
  ELSE IF parent_repo[self] # NULL THEN find_keyring(parent_repo[self], name)
  ELSE NoFile

\* What the verifier was given when the signature check starts: the
\* keyring directories, the keyring files, the ASCII key file, and whether
\* the deprecated global keyring directory is among the directories
Verifier(ret, dirs, files, key_ascii_file, global) ==
  [ret |-> ret, keyring_dirs |-> dirs, keyrings |-> files,
   key_ascii_file |-> key_ascii_file, global_keyring_dir |-> global]

\* _ostree_repo_gpg_verify_data_internal up to the signature check.  kind
\* says what remote_name is: "all" for the pointer OSTREE_ALL_REMOTES,
\* "none" for NULL, "named" for a string, and only then remote_name is
\* read.  The option of the remote is its gpgkeypath.
_ostree_repo_gpg_verify_data_internal(self, kind, remote_name, keyringdir, extra_keyring) ==
  LET remote == _ostree_repo_get_remote_inherited(self, remote_name)
      file == find_keyring(self, remote_name)
      add_global_keyring_dir == ~(kind = "named" /\ file # NoFile)
      gpgkeypath == IF kind = "named" THEN remote_options[remote][remote_name]
                    ELSE NoKey
  IN  IF kind = "named" /\ remote = NULL
      THEN Verifier("not_found", {}, {}, NoKey, FALSE)
      ELSE Verifier("ok",
                    (IF kind = "all" THEN {"repodir"} ELSE {})
                      \cup (IF keyringdir THEN {"keyringdir"} ELSE {}),
                    (IF kind = "named" /\ file # NoFile THEN {file} ELSE {})
                      \cup (IF extra_keyring THEN {KeyringFile(NULL, "extra")} ELSE {}),
                    gpgkeypath,
                    add_global_keyring_dir)

VerifyKinds == {"all", "none", "named"}
NoName == <<>>

\* One verification; the verifier it builds is kept in last.value
gpg_verify_call(self, kind, remote_name, keyringdir, extra_keyring) ==
  /\ ~ListBusy
  /\ (kind = "named") = (remote_name # NoName)
  /\ last' = [RemoteCall("gpg_verify", self, remote_name,
                         _ostree_repo_gpg_verify_data_internal(
                           self, kind, remote_name, keyringdir, extra_keyring).ret,
                         kind)
                EXCEPT !.value = _ostree_repo_gpg_verify_data_internal(
                                   self, kind, remote_name, keyringdir, extra_keyring)]
  /\ UNCHANGED <<handleVars, storeVars, obj, otherVars, remoteVars>>

----------------------------------------------------------------------------
(* The object store specifications                                         *)

LinkErrs == {"none", "EXDEV"}
NoCall == Call("none", NULL, NULL, "none", "none", "ok", "none")

\* The object store specifications leave the remotes registry empty
InitRemotes ==
  /\ remotes = [r \in Repos |-> [n \in RemoteNames |-> NoRemote]]
  /\ config_remotes = [r \in Repos |-> {}]
  /\ remotes_d = [r \in Repos |-> {}]
  /\ remotes_d_dir = [r \in Repos |-> FALSE]
  /\ remote_options = [r \in Repos |-> NoOptions]
  /\ group_options = [r \in Repos |-> NoGroups]
  /\ rl = NoList

\* Handles opened and nothing stored yet; the configuration is what the
\* config files of the repos say.
InitStore(configs, parents, uids, tombstones) ==
  /\ \E c \in configs : obj = c[1] /\ mode = c[2]
  /\ parent_repo = parents
  /\ owner_uid \in uids
  /\ tombstone_commits \in tombstones
  /\ commit_stagedir_fd = [r \in Repos |-> NoFd]
  /\ objects_dir = [r \in Repos |-> {}]
  /\ stage_dir = [r \in Repos |-> {}]
  /\ written = {}
  /\ last = NoCall
  /\ InitOther
  /\ InitHandles
  /\ InitRemotes

\* Lookup through a chain of parent repos: A's parent is B, B's parent is C.
Chain == [r \in Repos |-> IF r = "A" THEN "B" ELSE IF r = "B" THEN "C" ELSE NULL]

\* A file object is stored and loaded by mode, so every combination of modes
\* is tried for it; metadata is stored the same way in every mode.
UniformModes == {[r \in Repos |-> m] : m \in Modes}
LookupConfigs ==
  {<<o, m>> : o \in {<<FILE, CsumReg>>}, m \in [Repos -> Modes]}
  \cup {<<o, m>> : o \in {<<COMMIT, CsumReg>>}, m \in UniformModes}

Init ==
  InitStore(LookupConfigs, Chain,
            {[r \in Repos |-> 1000]}, {[r \in Repos |-> FALSE]})

Next ==
  \/ prepare_transaction("A")
  \/ commit_transaction("A")
  \/ \E self \in Repos : write_object(self, obj[1], obj[2])
  \/ \E self \in Repos : delete_object(self, obj[1], obj[2])
  \/ \E trusted \in BOOLEAN, linkerr \in LinkErrs :
       import_object_from_with_trust("A", "B", obj[1], obj[2], trusted, linkerr)

Spec == Init /\ [][Next]_vars

\* Delete in one repo without a parent: commits with detached metadata and
\* file objects, core/tombstone-commits on and off.
NoParents == [r \in Repos |-> NULL]
DeleteConfigs ==
  {<<o, m>> : o \in {<<COMMIT, CsumReg>>, <<FILE, CsumReg>>}, m \in UniformModes}

InitDelete ==
  InitStore(DeleteConfigs, NoParents,
            {[r \in Repos |-> 1000]}, {[r \in Repos |-> b] : b \in BOOLEAN})

NextDelete ==
  \/ prepare_transaction("A")
  \/ commit_transaction("A")
  \/ write_object("A", obj[1], obj[2])
  \/ obj[1] = COMMIT /\ write_commit_detached_metadata("A", obj[2])
  \/ delete_object("A", obj[1], obj[2])

SpecDelete == InitDelete /\ [][NextDelete]_vars

\* Import into A from C. B is the parent either of the destination or of
\* the source and has its child's mode. File objects (a regular file and a
\* symlink) are imported between every pair of modes, commits between repos
\* of one mode; the destination is owned by the source's uid or by another.
DestHasParent == [r \in Repos |-> IF r = "A" THEN "B" ELSE NULL]
SourceHasParent == [r \in Repos |-> IF r = "C" THEN "B" ELSE NULL]
ImportModes(parents) ==
  {m \in [Repos -> Modes] :
     m["B"] = IF parents["A"] = "B" THEN m["A"] ELSE m["C"]}
ImportUids == {[r \in Repos |-> IF r = "A" THEN u ELSE 1000] : u \in {0, 1000}}

InitImport ==
  \E parents \in {DestHasParent, SourceHasParent} :
    InitStore({<<o, m>> : o \in {<<FILE, CsumReg>>, <<FILE, CsumLnk>>},
                          m \in ImportModes(parents)}
              \cup {<<o, m>> : o \in {<<COMMIT, CsumReg>>}, m \in UniformModes},
              parents, ImportUids, {[r \in Repos |-> FALSE]})

NextImport ==
  \/ \E self \in {"A", "C"} : prepare_transaction(self)
  \/ \E self \in {"A", "C"} : commit_transaction(self)
  \/ \E self \in Repos : write_object(self, obj[1], obj[2])
  \/ \E self \in {"A", "C"} :
       obj[1] = COMMIT /\ write_commit_detached_metadata(self, obj[2])
  \/ \E trusted \in BOOLEAN, linkerr \in LinkErrs :
       import_object_from_with_trust("A", "C", obj[1], obj[2], trusted, linkerr)

SpecImport == InitImport /\ [][NextImport]_vars

\* The same repos and objects, with every kind of answer of linkat: the
\* link is made, the three errors that mean "cannot hardlink here", and
\* an error of another kind
AllLinkErrs == {"none", "EMLINK", "EXDEV", "EPERM", "EIO"}

NextImportLink ==
  \/ \E self \in {"A", "C"} : prepare_transaction(self)
  \/ \E self \in {"A", "C"} : commit_transaction(self)
  \/ \E self \in Repos : write_object(self, obj[1], obj[2])
  \/ \E trusted \in BOOLEAN, linkerr \in AllLinkErrs :
       import_object_from_with_trust("A", "C", obj[1], obj[2], trusted, linkerr)

SpecImportLink == InitImport /\ [][NextImportLink]_vars

\* The remotes registry of repo A, which has a parent repo or not and keeps
\* its remotes in remotes.d or in its config file. The handle was opened on
\* a config file that may define remote "a" already.
InitRegistry ==
  /\ obj = <<COMMIT, CsumReg>>
  /\ mode = [r \in Repos |-> MODE_BARE]
  /\ parent_repo \in {NoParents, DestHasParent}
  /\ owner_uid = [r \in Repos |-> 1000]
  /\ tombstone_commits = [r \in Repos |-> FALSE]
  /\ commit_stagedir_fd = [r \in Repos |-> NoFd]
  /\ objects_dir = [r \in Repos |-> {}]
  /\ stage_dir = [r \in Repos |-> {}]
  /\ written = {}
  /\ last = NoCall
  /\ InitOther
  /\ InitHandles
  /\ \E groups \in {{}, {<<97>>}} :
       /\ config_remotes = [r \in Repos |-> IF r = "A" THEN groups ELSE {}]
       /\ remotes = [r \in Repos |->
                       [n \in RemoteNames |->
                          IF r = "A" /\ n \in groups THEN IN_CONFIG ELSE NoRemote]]
       /\ remote_options = [r \in Repos |->
                              [n \in RemoteNames |->
                                 IF r = "A" /\ n \in groups THEN "u1" ELSE NoKey]]
       /\ group_options = [r \in Repos |->
                             [NoGroups EXCEPT ![IN_CONFIG] =
                                [n \in RemoteNames |->
                                   IF r = "A" /\ n \in groups THEN "u1" ELSE NoKey]]]
  /\ remotes_d = [r \in Repos |-> {}]
  /\ remotes_d_dir \in {[r \in Repos |-> b] : b \in BOOLEAN}
  /\ rl = NoList

NextRegistry ==
  \/ \E name \in RemoteNames, if_not_exists \in BOOLEAN :
       impl_repo_remote_add("A", if_not_exists, name, "u1", "none")
  \/ \E name \in RemoteNames, if_exists \in BOOLEAN :
       impl_repo_remote_delete("A", if_exists, name, "none")
  \/ \E files \in Orders(DirFiles("A")) : ostree_repo_reload_config("A", files)
  \/ \E name \in RemoteNames : remotes_d_file_installed("A", name, "u1")
  \/ \E keys \in Orders(RemoteKeys("A")) : ostree_repo_remote_list("A", keys)
  \/ remote_list_recurse
  \/ remote_list_overflow

SpecRegistry == InitRegistry /\ [][NextRegistry]_vars

\* Reloading the remotes of repo A: two remote names with either url, in
\* the config, in their own remotes.d files and in a several-group file.
ReloadNames == {<<97>>, <<98>>}

NextReload ==
  \/ \E name \in ReloadNames, if_not_exists \in BOOLEAN, url \in Urls :
       impl_repo_remote_add("A", if_not_exists, name, url, "none")
  \/ \E name \in ReloadNames, if_exists \in BOOLEAN :
       impl_repo_remote_delete("A", if_exists, name, "none")
  \/ \E files \in Orders(DirFiles("A")) : ostree_repo_reload_config("A", files)
  \/ \E name \in ReloadNames, url \in Urls : remotes_d_file_installed("A", name, url)
  \/ \E groups \in SUBSET ReloadNames : dropin_file_installed("A", groups, "u2")

SpecReload == InitRegistry /\ [][NextReload]_vars

\* Listing the objects of repo A, which stands alone or has parent B and
\* grandparent C: one object (a file, a dirtree or a commit) is written
\* into and deleted from the three repos, with and without a transaction
\* open on A.
ListFlags == SUBSET {"LOOSE", "ALL", "NO_PARENTS"}
Starts == {<<>>, <<"a">>, <<"b">>, <<"a", "a">>, <<"a", "b">>}
ListConfigs ==
  {<<o, m>> : o \in {<<FILE, CsumReg>>, <<DIR_TREE, CsumLnk>>, <<COMMIT, CsumReg>>,
                     <<COMMIT, CsumLnk>>},
              m \in UniformModes}

InitList ==
  \E parents \in {NoParents, Chain} :
    InitStore(ListConfigs, parents, {[r \in Repos |-> 1000]}, {[r \in Repos |-> FALSE]})

NextList ==
  \/ prepare_transaction("A")
  \/ commit_transaction("A")
  \/ \E self \in Repos : write_object(self, obj[1], obj[2])
  \/ obj[1] = COMMIT /\ write_commit_detached_metadata("A", obj[2])
  \/ \E self \in Repos : delete_object(self, obj[1], obj[2])
  \/ \E flags \in ListFlags : list_objects_call("A", flags)
  \/ \E start \in Starts : list_commit_objects_starting_with_call("A", start)

SpecList == InitList /\ [][NextList]_vars

\* The remotes of repo A are changed through its handle only; writing the
\* config or a remotes.d file, and unlinking a keyring, can fail.
AddFaults == {"none", "persist"}
DeleteFaults == {"none", "persist", "keyring"}

NextRemoteFaults ==
  \/ \E name \in ReloadNames, if_not_exists \in BOOLEAN, url \in Urls, fault \in AddFaults :
       impl_repo_remote_add("A", if_not_exists, name, url, fault)
  \/ \E name \in ReloadNames, if_exists \in BOOLEAN, fault \in DeleteFaults :
       impl_repo_remote_delete("A", if_exists, name, fault)

SpecRemoteFaults == InitRegistry /\ [][NextRemoteFaults]_vars

\* The handle of repo A from before its first open: the repo directory is
\* missing, partly made or complete (objects/ then holds one commit
\* object), its config file (when there) names a
\* mode and maybe the parent repo B and defines remote "a", objects/ is
\* writable or not. The config file, the permissions of objects/ and
\* remotes.d change under the handle.
OpenDirs == {{}, {RepoDir, "objects"}, {RepoDir, "objects", "refs"},
             {RepoDir} \cup StateDirs}
OpenConfigs == {NoConfig, ConfigFile("bare-user", NoKey), ConfigFile("archive-z2", "B")}
ConfigEdits == {ConfigFile("archive", NoKey), ConfigFile("archive", ""),
                ConfigFile("bare", "C"), ConfigFile("bogus", "C"),
                ConfigFile("bare", "nowhere")}

InitOpen ==
  /\ obj = <<COMMIT, CsumReg>>
  /\ mode = [r \in Repos |-> MODE_BARE]
  /\ parent_repo = NoParents
  /\ owner_uid = [r \in Repos |-> 1000]
  /\ tombstone_commits = [r \in Repos |-> FALSE]
  /\ commit_stagedir_fd = [r \in Repos |-> NoFd]
  /\ stage_dir = [r \in Repos |-> {}]
  /\ written = {}
  /\ last = NoCall
  /\ InitOther
  /\ remotes = [r \in Repos |-> [n \in RemoteNames |-> NoRemote]]
  /\ remote_options = [r \in Repos |-> NoOptions]
  /\ remotes_d = [r \in Repos |-> {}]
  /\ remotes_d_dir = [r \in Repos |-> r = "A"]
  /\ rl = NoList
  /\ inited = [r \in Repos |-> r # "A"]
  /\ writable = [r \in Repos |-> r # "A"]
  /\ writable_error = [r \in Repos |-> "none"]
  /\ config = [r \in Repos |-> IF r = "A" THEN NoConfig ELSE ConfigFile("bare", NoKey)]
  /\ dir_fds = [r \in Repos |->
                  IF r = "A" THEN NoDirFds
                  ELSE [repo_dir_fd |-> RepoDirFd, objects_dir_fd |-> ObjectsDirFd,
                        tmp_dir_fd |-> TmpDirFd]]
  /\ \E dirs \in OpenDirs, file \in OpenConfigs, w \in BOOLEAN :
       /\ file.present => RepoDir \in dirs
       /\ w => "objects" \in dirs
       /\ disk = [r \in Repos |->
                    IF r = "A"
                    THEN [config |-> file, dirs |-> dirs, objects_writable |-> w]
                    ELSE [config |-> ConfigFile("bare", NoKey),
                          dirs |-> {RepoDir} \cup StateDirs, objects_writable |-> TRUE]]
       /\ objects_dir = [r \in Repos |->
                           IF r = "A" /\ "objects" \in dirs
                           THEN {_ostree_loose_path(obj[2], obj[1], MODE_BARE)}
                           ELSE {}]
       /\ config_remotes = [r \in Repos |->
                              IF r = "A" /\ file.present THEN {<<97>>} ELSE {}]
       /\ group_options = [r \in Repos |->
                             IF r = "A" /\ file.present
                             THEN [NoGroups EXCEPT ![IN_CONFIG][<<97>>] = "u1"]
                             ELSE NoGroups]
  /\ user_xattrs \in BOOLEAN
  /\ disable_fsync = [r \in Repos |-> FALSE]

NextOpen ==
  \/ \E files \in Orders(DirFiles("A")) : ostree_repo_open("A", files)
  \/ \E m \in Modes, files \in Orders(DirFiles("A")) : ostree_repo_create("A", m, files)
  \/ \E files \in Orders(DirFiles("A")) : ostree_repo_reload_config("A", files)
  \/ ostree_repo_is_writable("A")
  \/ \E file \in ConfigEdits : config_file_written("A", file)
  \/ objects_chmod("A")
  \/ remotes_d_file_installed("A", <<97>>, "u2")

SpecOpen == InitOpen /\ [][NextOpen]_vars

\* The opened handles of repos without parents, repo A holding the given
\* loose objects
InitBaseStore(o, objects) ==
  /\ obj = o
  /\ mode = [r \in Repos |-> MODE_BARE]
  /\ parent_repo = NoParents
  /\ owner_uid = [r \in Repos |-> 1000]
  /\ tombstone_commits = [r \in Repos |-> FALSE]
  /\ commit_stagedir_fd = [r \in Repos |-> NoFd]
  /\ objects_dir = [r \in Repos |-> IF r = "A" THEN objects ELSE {}]
  /\ stage_dir = [r \in Repos |-> {}]
  /\ written = {}
  /\ last = [NoCall EXCEPT !.value = NULL]
  /\ InitRemotes

InitBase(o, objects) == InitBaseStore(o, objects) /\ InitHandles

\* Two threads on the dirmeta cache of repo A, which holds the dirmeta
\* object "aa" and not "bb": each takes and drops cache references and
\* loads dirmeta objects.
InitCacheSpec ==
  /\ InitBase(<<DIR_META, CsumReg>>, {_ostree_loose_path(CsumReg, DIR_META, MODE_BARE)})
  /\ InitOther

NextCache ==
  \/ \E t \in Threads, ref \in CacheRefs : _ostree_repo_memory_cache_ref_init(t, ref)
  \/ \E t \in Threads, ref \in CacheRefs : _ostree_repo_memory_cache_ref_destroy(t, ref)
  \/ \E t \in Threads, checksum \in Checksums : load_dirmeta(t, "A", checksum)

SpecCache == InitCacheSpec /\ [][NextCache]_vars

\* The same threads and cache, and the dirmeta objects of repo A are
\* deleted while references to the cache are held
NextCacheDelete ==
  \/ NextCache
  \/ \E checksum \in Checksums : delete_object("A", DIR_META, checksum)

SpecCacheDelete == InitCacheSpec /\ [][NextCacheDelete]_vars

\* Three processes allocate and release staging directories in one tmp/
InitTmpdir == InitBase(<<DIR_META, CsumReg>>, {}) /\ InitOther

NextTmpdir ==
  \/ \E p \in Procs : _ostree_repo_allocate_tmpdir(p)
  \/ \E p \in Procs : glnx_release_lock_file(p)

SpecTmpdir == InitTmpdir /\ [][NextTmpdir]_vars

\* Three processes each make one call and may end afterwards.  A process
\* that is inside the call keeps running: its next system call happens.
NextTmpdirOnce ==
  \/ \E p \in Procs : _ostree_repo_allocate_tmpdir(p)
  \/ \E p \in Procs : process_exit(p)

SpecTmpdirFair ==
  /\ InitTmpdir
  /\ [][NextTmpdirOnce]_vars
  /\ \A p \in Procs :
       WF_vars(procs[p].pc # "idle" /\ _ostree_repo_allocate_tmpdir(p))

\* Repo A without a parent, with no detached metadata of the commit "aa",
\* detached metadata without signatures or with one signature of "k1":
\* the commit is written, in a transaction or outside one, and signed.
SignMetadata ==
  {NoMetadata, OtherMetadata,
   _ostree_detached_metadata_append_gpg_sig(NoMetadata, Signature("k1", CsumReg))}

InitSign ==
  \E metadata \in SignMetadata :
    /\ InitBase(<<COMMIT, CsumReg>>,
                IF metadata.is_null THEN {}
                ELSE {_ostree_loose_path(CsumReg, COMMIT_META, MODE_BARE)})
    /\ InitCache /\ InitStaging /\ po = NoOpen /\ InitReg /\ keyrings = NoKeyrings
    /\ ref_store = NoRefs
    /\ summary = NoSummary
    /\ summary_sig = NoSummarySig
    /\ commitmeta = metadata
    /\ sign_last = [op |-> "none", keys |-> <<>>, ret |-> "none", had_sig |-> FALSE]

NextSign ==
  \/ prepare_transaction("A")
  \/ commit_transaction("A")
  \/ write_object("A", obj[1], obj[2])
  \/ \E key_id \in KeyIds : ostree_repo_sign_commit("A", obj[2], key_id)

SpecSign == InitSign /\ [][NextSign]_vars

\* Repo A without a parent, the commit "aa" stored or not and every ref
\* pointing to it: the summary is regenerated and signed.
RefStores ==
  [collection_id : {NoCollectionId, <<99>>}, heads : SUBSET RefNames,
   remotes : SUBSET RemoteRefs, mirrors : SUBSET (CollectionIds \X RefNames)]

InitSummary ==
  \E commit_stored \in BOOLEAN :
    /\ InitBase(<<COMMIT, CsumReg>>,
                IF commit_stored THEN {_ostree_loose_path(CsumReg, COMMIT, MODE_BARE)}
                ELSE {})
    /\ InitCache /\ InitStaging /\ po = NoOpen /\ InitReg /\ keyrings = NoKeyrings
    /\ ref_store \in RefStores
    /\ summary = NoSummary
    /\ summary_sig = NoSummarySig
    /\ commitmeta = NoMetadata
    /\ sign_last = [op |-> "none", keys |-> <<>>, ret |-> "none", had_sig |-> FALSE]

NextSummary ==
  \/ \E key_id \in KeyIdLists : ostree_repo_add_gpg_signature_summary("A", key_id)
  \/ \E order \in HashOrders : ostree_repo_regenerate_summary("A", order)

SpecSummary == InitSummary /\ [][NextSummary]_vars

\* The repos A, B and C on disk, each with a config whose core/parent is
\* empty, names B or C, or names a path where no repo is; a new handle is
\* opened on one of them.
InitParents ==
  /\ InitBaseStore(<<COMMIT, CsumReg>>, {})
  /\ InitOther
  /\ inited = [r \in Repos |-> FALSE]
  /\ writable = [r \in Repos |-> FALSE]
  /\ writable_error = [r \in Repos |-> "none"]
  /\ config = [r \in Repos |-> NoConfig]
  /\ dir_fds = [r \in Repos |-> NoDirFds]
  /\ \E parents \in [Repos -> ParentPaths] :
       disk = [r \in Repos |-> [config |-> ConfigFile("bare", parents[r]),
                                dirs |-> {RepoDir} \cup StateDirs,
                                objects_writable |-> TRUE]]
  /\ user_xattrs = TRUE
  /\ disable_fsync = [r \in Repos |-> FALSE]

NextParents ==
  \/ \E path \in Repos, nofile \in RlimitNofile : ostree_repo_open_new(path, nofile)
  \/ ostree_repo_open_parent
  \/ ostree_repo_open_overflow
  \/ ostree_repo_open_done

SpecParents == InitParents /\ [][NextParents]_vars

\* Remote options through the parent chain A -> B -> C: in every repo the
\* remote "a" is absent, present without the key, or present with the url
\* "u1" or the boolean "true" as the value of the key.
OptionName == <<97>>
OptionStates == {NoRemote, NoKey, "u1", "true"}

InitOptions ==
  /\ obj = <<COMMIT, CsumReg>>
  /\ mode = [r \in Repos |-> MODE_BARE]
  /\ parent_repo = Chain
  /\ owner_uid = [r \in Repos |-> 1000]
  /\ tombstone_commits = [r \in Repos |-> FALSE]
  /\ commit_stagedir_fd = [r \in Repos |-> NoFd]
  /\ objects_dir = [r \in Repos |-> {}]
  /\ stage_dir = [r \in Repos |-> {}]
  /\ written = {}
  /\ last = NoCall
  /\ InitOther
  /\ InitHandles
  /\ \E st \in [Repos -> OptionStates] :
       /\ remotes = [r \in Repos |->
                       [n \in RemoteNames |->
                          IF n = OptionName /\ st[r] # NoRemote THEN IN_CONFIG ELSE NoRemote]]
       /\ config_remotes = [r \in Repos |-> IF st[r] # NoRemote THEN {OptionName} ELSE {}]
       /\ remote_options = [r \in Repos |->
                              [n \in RemoteNames |->
                                 IF n = OptionName /\ st[r] # NoRemote THEN st[r] ELSE NoKey]]
       /\ group_options = [r \in Repos |->
                             [NoGroups EXCEPT ![IN_CONFIG] =
                                [n \in RemoteNames |->
                                   IF n = OptionName /\ st[r] # NoRemote THEN st[r] ELSE NoKey]]]
  /\ remotes_d = [r \in Repos |-> {}]
  /\ remotes_d_dir = [r \in Repos |-> FALSE]
  /\ rl = NoList

NextOptions ==
  \/ \E self \in Repos, name \in {OptionName, FileRemoteName} :
       get_remote_option_call("string", self, name, "default")
  \/ \E self \in Repos, name \in {OptionName, FileRemoteName} :
       get_remote_option_call("list", self, name, "NULL")
  \/ \E self \in Repos, name \in {OptionName, FileRemoteName}, default \in BOOLEAN :
       get_remote_option_call("boolean", self, name, default)

SpecOptions == InitOptions /\ [][NextOptions]_vars

\* The same chain and remotes, asked for the URL and the GPG options of
\* the remote "a" and of the names "file://x" and "file://"
NextRemoteGet ==
  \/ NextOptions
  \/ \E what \in {"url", "gpg_verify", "gpg_verify_summary"}, self \in Repos,
        name \in {OptionName, FileRemoteName, FilePrefix} :
       remote_get_call(what, self, name)

SpecRemoteGet == InitOptions /\ [][NextRemoteGet]_vars

\* Keyrings through the parent chain A -> B -> C: in every repo the
\* remote "a" is absent, present without gpgkeypath or present with it,
\* and its keyring file is absent, next to the repo or in remotes.d; either
\* only A or every repo has a remotes.d directory.  The remote "b" is
\* nowhere.
KeyringStates == {NoRemote, NoKey, "/k.asc"}
KeyringPlaces == {"none", "repodir", "remotes_d"}
UnknownName == <<98>>

InitKeyring ==
  /\ obj = <<COMMIT, CsumReg>>
  /\ mode = [r \in Repos |-> MODE_BARE]
  /\ parent_repo = Chain
  /\ owner_uid = [r \in Repos |-> 1000]
  /\ tombstone_commits = [r \in Repos |-> FALSE]
  /\ commit_stagedir_fd = [r \in Repos |-> NoFd]
  /\ objects_dir = [r \in Repos |-> {}]
  /\ stage_dir = [r \in Repos |-> {}]
  /\ written = {}
  /\ last = NoCall
  /\ InitCache /\ InitStaging /\ InitSignVars /\ po = NoOpen /\ InitReg
  /\ InitHandles
  /\ \E st \in [Repos -> KeyringStates] :
       /\ remotes = [r \in Repos |->
                       [n \in RemoteNames |->
                          IF n = OptionName /\ st[r] # NoRemote THEN IN_CONFIG ELSE NoRemote]]
       /\ config_remotes = [r \in Repos |-> IF st[r] # NoRemote THEN {OptionName} ELSE {}]
       /\ remote_options = [r \in Repos |->
                              [n \in RemoteNames |->
                                 IF n = OptionName /\ st[r] # NoRemote THEN st[r] ELSE NoKey]]
       /\ group_options = [r \in Repos |->
                             [NoGroups EXCEPT ![IN_CONFIG] =
                                [n \in RemoteNames |->
                                   IF n = OptionName /\ st[r] # NoRemote THEN st[r] ELSE NoKey]]]
  /\ remotes_d = [r \in Repos |-> {}]
  /\ \E all \in BOOLEAN : remotes_d_dir = [r \in Repos |-> all \/ r = "A"]
  /\ \E place \in [Repos -> KeyringPlaces] :
       keyrings = [r \in Repos |->
                     [repodir |-> IF place[r] = "repodir" THEN {OptionName} ELSE {},
                      remotes_d |-> IF place[r] = "remotes_d" THEN {OptionName} ELSE {}]]
  /\ rl = NoList

NextKeyring ==
  \E self \in Repos, kind \in VerifyKinds,
     remote_name \in {NoName, OptionName, UnknownName},
     keyringdir \in BOOLEAN, extra_keyring \in BOOLEAN :
    gpg_verify_call(self, kind, remote_name, keyringdir, extra_keyring)

SpecKeyring == InitKeyring /\ [][NextKeyring]_vars

\* Threads on the handle of repo A ingest the key file of remotes.d that
\* holds several remote groups, and list the remotes.  The key file has
\* one to three groups; any of the three names may already be a remote of
\* the config file.
IngestNames == {<<97>>, <<98>>, <<97, 98>>}

InitIngest ==
  /\ obj = <<COMMIT, CsumReg>>
  /\ mode = [r \in Repos |-> MODE_BARE]
  /\ parent_repo = NoParents
  /\ owner_uid = [r \in Repos |-> 1000]
  /\ tombstone_commits = [r \in Repos |-> FALSE]
  /\ commit_stagedir_fd = [r \in Repos |-> NoFd]
  /\ objects_dir = [r \in Repos |-> {}]
  /\ stage_dir = [r \in Repos |-> {}]
  /\ written = {}
  /\ last = NoCall
  /\ InitOther
  /\ InitHandles
  /\ \E in_config \in SUBSET IngestNames, in_file \in (SUBSET IngestNames) \ {{}} :
       /\ remotes = [r \in Repos |->
                       [n \in RemoteNames |->
                          IF r = "A" /\ n \in in_config THEN IN_CONFIG ELSE NoRemote]]
       /\ config_remotes = [r \in Repos |-> IF r = "A" THEN in_config ELSE {}]
       /\ remote_options = [r \in Repos |->
                              [n \in RemoteNames |->
                                 IF r = "A" /\ n \in in_config THEN "u1" ELSE NoKey]]
       /\ group_options = [r \in Repos |->
                             [NoGroups EXCEPT
                                ![IN_CONFIG] =
                                   [n \in RemoteNames |->
                                      IF r = "A" /\ n \in in_config THEN "u1" ELSE NoKey],
                                ![IN_DROPIN] =
                                   [n \in RemoteNames |->
                                      IF r = "A" /\ n \in in_file THEN "u2" ELSE NoKey]]]
  /\ remotes_d = [r \in Repos |-> {}]
  /\ remotes_d_dir = [r \in Repos |-> r = "A"]
  /\ rl = NoList

NextIngest ==
  \/ \E t \in Threads, groups \in Orders(DropinGroups("A")) :
       add_remotes_from_keyfile_lock(t, "A", groups, IN_DROPIN)
  \/ \E t \in Threads : add_remotes_from_keyfile_validate(t, "A")
  \/ \E t \in Threads : add_remotes_from_keyfile_commit(t, "A")
  \/ \E t \in Threads : add_remotes_from_keyfile_unlock(t, "A")
  \/ \E t \in Threads : remote_list_keys(t, "A")

SpecIngest == InitIngest /\ [][NextIngest]_vars

\* The handle of repo A from before its first open: the config file of
\* the repo has core/fsync unset, true or false and is rewritten under the
\* handle; the handle is opened, reloaded, and replaces files.
FsyncKeys == {NoKey, "true", "false"}
FsyncConfigs ==
  {ConfigFileFsync(m, NoKey, f) : m \in {"bare", "archive-z2"}, f \in FsyncKeys}

InitFsync ==
  /\ InitBaseStore(<<COMMIT, CsumReg>>, {})
  /\ InitOther
  /\ inited = [r \in Repos |-> r # "A"]
  /\ writable = [r \in Repos |-> r # "A"]
  /\ writable_error = [r \in Repos |-> "none"]
  /\ config = [r \in Repos |-> IF r = "A" THEN NoConfig ELSE ConfigFile("bare", NoKey)]
  /\ dir_fds = [r \in Repos |->
                  IF r = "A" THEN NoDirFds
                  ELSE [repo_dir_fd |-> RepoDirFd, objects_dir_fd |-> ObjectsDirFd,
                        tmp_dir_fd |-> TmpDirFd]]
  /\ \E file \in FsyncConfigs :
       disk = [r \in Repos |->
                 [config |-> IF r = "A" THEN file ELSE ConfigFile("bare", NoKey),
                  dirs |-> {RepoDir} \cup StateDirs, objects_writable |-> TRUE]]
  /\ user_xattrs = TRUE
  /\ disable_fsync = [r \in Repos |-> FALSE]

NextFsync ==
  \/ ostree_repo_open("A", <<>>)
  \/ ostree_repo_reload_config("A", <<>>)
  \/ \E file \in FsyncConfigs : config_file_written("A", file)
  \/ file_replace_contents_call("A")

SpecFsync == InitFsync /\ [][NextFsync]_vars

\* Two threads each make one call of remote add on the handle of repo A,
\* which keeps its remotes in remotes.d or in its config file and has no
\* remote at first.
AddNames == {<<97>>, <<98>>}

InitConcurrentAdd ==
  /\ InitBaseStore(<<COMMIT, CsumReg>>, {})
  /\ InitHandles
  /\ InitOther

NextConcurrentAdd ==
  \/ \E t \in Threads, if_not_exists \in BOOLEAN, name \in AddNames, url \in Urls :
       remote_add_lookup(t, "A", if_not_exists, name, url)
  \/ \E t \in Threads : remote_add_persist(t, "A")
  \/ \E t \in Threads : _ostree_repo_add_remote(t, "A")
  \/ \E t \in Threads : remote_list_keys(t, "A")

SpecConcurrentAdd == InitConcurrentAdd /\ [][NextConcurrentAdd]_vars

\* The thread inside ostree_repo_remote_list keeps running: a call that
\* can take its next frame takes it.
SpecRegistryFair ==
  /\ SpecRegistry
  /\ WF_vars(remote_list_recurse)
  /\ WF_vars(remote_list_overflow)

----------------------------------------------------------------------------
(* Properties of lookup, write and delete (specification Spec)             *)

\* (objtype, checksum) is stored in r itself: its open staging directory
\* or its main objects directory
PresentLocal(r, objtype, checksum) ==
  LET path == _ostree_loose_path(checksum, objtype, mode[r])
  IN  InStage(r, path) \/ InObjects(r, path)

\* The repos reachable from self through parent_repo
RECURSIVE Ancestors(_)
Ancestors(self) ==
  IF parent_repo[self] = NULL THEN {}
  ELSE {parent_repo[self]} \cup Ancestors(parent_repo[self])

PresentInAncestor(self, objtype, checksum) ==
  \E anc \in Ancestors(self) : PresentLocal(anc, objtype, checksum)

\* C1: an object absent from a repo's staging and objects directories but
\* present in a repo on its parent chain loads through the child, and the
\* load returns the object an ancestor holds.
C1_LookupCascade ==
  \A self \in Repos :
    (~PresentLocal(self, obj[1], obj[2]) /\ PresentInAncestor(self, obj[1], obj[2]))
    => LET got == Load(self, obj[1], obj[2])
       IN  /\ got.ret = "ok"
           /\ got.repo \in Ancestors(self)
           /\ PresentLocal(got.repo, obj[1], obj[2])

InBothDirs(self, objtype, checksum) ==
  LET path == _ostree_loose_path(checksum, objtype, mode[self])
  IN  InStage(self, path) /\ InObjects(self, path)

C3_HasObjectIff ==
  \A self \in Repos :
    has_object(self, obj[1], obj[2])
      <=> (PresentLocal(self, obj[1], obj[2]) \/ PresentInAncestor(self, obj[1], obj[2]))

\* C3 witness: after a delete in the parent, has_object still answers true
\* for an object that only the grandparent holds.
C3_Witness ==
  /\ ~PresentLocal("A", obj[1], obj[2]) /\ ~PresentLocal("B", obj[1], obj[2])
  /\ PresentLocal("C", obj[1], obj[2])
  /\ has_object("A", obj[1], obj[2])
  /\ last.op = "delete" /\ last.self = "B" /\ last.ret = "ok"

\* C4: an object written to a repo and not deleted from it since is reported
\* by has_object and loads from that repo, wherever the write landed.
C4_WrittenIsPresent ==
  \A w \in written :
    /\ has_object(w[1], w[2], w[3])
    /\ Load(w[1], w[2], w[3]).ret = "ok"
    /\ Load(w[1], w[2], w[3]).repo = w[1]

\* C4 witness: a second write of a stored object changed nothing, and the
\* object sits in the staging directory of a transaction.
C4_Witness ==
  /\ last.op = "write" /\ last.via = "none" /\ last.self = "A"
  /\ <<"A", obj[1], obj[2]>> \in written
  /\ InStage("A", _ostree_loose_path(obj[2], obj[1], mode["A"]))
  /\ ~InObjects("A", _ostree_loose_path(obj[2], obj[1], mode["A"]))

DeleteSucceeded == last.op = "delete" /\ last.ret = "ok"

----------------------------------------------------------------------------
(* Properties of delete (specification SpecDelete)                         *)

C7_FailedDeleteIsNoOp ==
  [][(last'.op = "delete" /\ last'.ret # "ok" /\ last' # last)
       => (objects_dir' = objects_dir /\ stage_dir' = stage_dir)]_vars

----------------------------------------------------------------------------
(* Properties of import (specification SpecImport)                         *)

ImportSucceeded == last.op = "import" /\ last.ret = "ok"

\* C8: whenever an import returns success, whatever the modes, the object
\* type, the trust flag and the path taken, has_object on the destination
\* is true for the imported object.
C8_ImportedIsPresent ==
  ImportSucceeded => has_object(last.self, last.objtype, last.checksum)

\* C8 witness: a trusted import from a bare-user into a bare-user-only repo
\* copied a symlink, which cannot be hardlinked.
C8_Witness ==
  /\ ImportSucceeded /\ last.trusted /\ last.via = "copied"
  /\ mode[last.source] = MODE_BARE_USER /\ mode[last.self] = MODE_BARE_USER_ONLY
  /\ last.objtype = FILE /\ FileType(last.checksum) = S_IFLNK
  /\ has_object(last.self, last.objtype, last.checksum)

\* C9: whenever the import of a commit succeeds and the source holds
\* detached metadata for it, the destination holds detached metadata for
\* it afterwards, on every path through import.
C9_ImportCopiesDetachedMetadata ==
  (/\ ImportSucceeded /\ last.objtype = COMMIT
   /\ read_commit_detached_metadata(last.source, last.checksum).ret = "ok")
  => read_commit_detached_metadata(last.self, last.checksum).ret = "ok"

----------------------------------------------------------------------------
(* Properties of the remotes registry (specification SpecRegistry)         *)

\* a comes before b in lexicographic order: at the first position where
\* they differ a has the smaller byte, or a ends there and b does not
LexLess(a, b) ==
  \E k \in 1..Len(b) :
    /\ \A i \in 1..(k - 1) : i <= Len(a) /\ a[i] = b[i]
    /\ k > Len(a) \/ (k <= Len(a) /\ a[k] < b[k])

RemoteListReturned == last.op = "remote_list" /\ rl.pc = "returned"

\* C10: whenever remote_list returns, after any adds, deletes and reloads,
\* its list holds every remote name of the registry exactly once, in
\* strictly increasing lexicographic order, and it returns no list and the
\* count 0 when the registry is empty.
C10_RemoteListSortedUnique ==
  RemoteListReturned =>
    LET keys == RemoteKeys(rl.self)
        list == rl.remotes
    IN  /\ rl.n_remotes = Cardinality(keys)
        /\ Len(list) = Cardinality(keys)
        /\ {list[i] : i \in 1..Len(list)} = keys
        /\ \A i \in 1..(Len(list) - 1) : LexLess(list[i], list[i + 1])
        /\ rl.is_null <=> keys = {}

\* C10 witness: a list of three names, upper case before lower case and a
\* name before the names it is a prefix of, returned while a remotes.d
\* file not yet reloaded is not in the registry.
C10_Witness ==
  /\ RemoteListReturned
  /\ rl.remotes = <<<<66>>, <<97>>, <<97, 98>>>>
  /\ <<98>> \in remotes_d[rl.self]
  /\ remotes[rl.self][<<97>>] = IN_CONFIG

\* C11: a remote_list call on a repo that has a parent repo terminates: a
\* call that has entered the collecting function returns its list.
C11_RemoteListWithParentReturns ==
  (rl.pc = "recursing" /\ parent_repo[rl.self] # NULL) ~> (rl.pc = "returned")

RemoteDeleteStep(self, name) ==
  last'.op = "remote_delete" /\ last' # last /\ last'.self = self /\ last'.name = name

\* C12: a successful delete of a remote that was in the registry leaves
\* the local lookup of that name not-found, and a remote_list made next does
\* not contain it; a delete of a name not in the registry fails with
\* not-found, a delete-if-exists of such a name succeeds, and neither
\* changes the registry, the config or remotes.d.
C12_DeleteRemovesRemote ==
  [][\A self \in Repos, name \in RemoteNames :
       /\ (RemoteDeleteStep(self, name) /\ last'.ret = "ok")
           => _ostree_repo_get_remote(self, name)' = "not_found"
       /\ (RemoteDeleteStep(self, name)
            /\ _ostree_repo_get_remote(self, name) = "not_found")
           => /\ last'.ret \in {"ok", "not_found"}
              /\ last'.ret = "ok" <=> last'.via = "if_exists"
              /\ remotes' = remotes /\ config_remotes' = config_remotes
              /\ remotes_d' = remotes_d
       /\ (last.op = "remote_delete" /\ last.ret = "ok" /\ last.name = name
            /\ last'.op = "remote_list" /\ rl'.pc = "returned")
           => \A i \in 1..Len(rl'.remotes) : rl'.remotes[i] # name]_vars

\* C12 witness: a remote kept in remotes.d was deleted, its lookup is
\* not-found and other remotes are still in the registry.
C12_Witness ==
  /\ last.op = "remote_delete" /\ last.ret = "ok" /\ last.via = IN_REMOTES_D
  /\ _ostree_repo_get_remote(last.self, last.name) = "not_found"
  /\ last.name \notin remotes_d[last.self]
  /\ Cardinality(RemoteKeys(last.self)) >= 2

RemoteAddStep(self, name) ==
  last'.op = "remote_add" /\ last' # last /\ last'.self = self /\ last'.name = name

\* C14: an add of a remote whose name is already in the registry fails with
\* 'already exists', an add-if-not-exists of such a name succeeds, and
\* neither changes the registry, the options of the existing remote, the
\* config or the files of remotes.d.
C14_AddExistingChangesNothing ==
  [][\A self \in Repos, name \in RemoteNames :
       (RemoteAddStep(self, name) /\ _ostree_repo_get_remote(self, name) = "ok")
         => /\ last'.ret = (IF last'.via = "if_not_exists" THEN "ok" ELSE "exists")
            /\ last'.via \in {"if_not_exists", "none"}
            /\ remotes' = remotes /\ remote_options' = remote_options
            /\ config_remotes' = config_remotes /\ remotes_d' = remotes_d
            /\ group_options' = group_options]_vars

\* C14 witness: an add-if-not-exists was made of a remote that is in the
\* registry with the url "u1" while another remote has the url "u2".
C14_Witness ==
  /\ last.op = "remote_add" /\ last.ret = "ok" /\ last.via = "if_not_exists"
  /\ _ostree_repo_get_remote(last.self, last.name) = "ok"
  /\ remote_options[last.self][last.name] = "u1"
  /\ \E n \in RemoteNames : remote_options[last.self][n] = "u2"

ReloadStep(self) ==
  last'.op = "reload_config" /\ last' # last /\ last'.self = self

\* The sources that define the remote: the config file, the remote's own
\* file in remotes.d and the several-group file in remotes.d
Sources(self, name) ==
  {w \in {IN_CONFIG, IN_REMOTES_D, IN_DROPIN} :
     /\ w = IN_CONFIG => name \in config_remotes[self]
     /\ w = IN_REMOTES_D => remotes_d_dir[self] /\ name \in remotes_d[self]
     /\ w = IN_DROPIN => remotes_d_dir[self] /\ name \in DropinGroups(self)}

\* C15: a reload_config fails with 'multiple specifications' exactly when
\* some remote name is defined by two sources (the config and a remotes.d
\* file, or two remotes.d files); a reload that succeeds leaves each defined
\* name in the registry once, with the one source that defines it, and no
\* other name.
C15_DuplicateRemoteFailsLoad ==
  [][\A self \in Repos :
       ReloadStep(self)
         => /\ last'.ret = "multiple"
                 <=> \E n \in RemoteNames : Cardinality(Sources(self, n)) >= 2
            /\ last'.ret = "ok"
                 => \A n \in RemoteNames :
                      /\ remotes'[self][n] = NoRemote <=> Sources(self, n) = {}
                      /\ remotes'[self][n] # NoRemote
                           => Sources(self, n) = {remotes'[self][n]}]_vars

\* C15 witness: a reload failed while one name was defined by the config
\* and by its own remotes.d file, and another by two remotes.d files.
C15_Witness ==
  /\ last.op = "reload_config" /\ last.ret = "multiple"
  /\ \E n, m \in RemoteNames :
       /\ Sources(last.self, n) = {IN_CONFIG, IN_REMOTES_D}
       /\ Sources(last.self, m) = {IN_REMOTES_D, IN_DROPIN}

\* C16: a reload_config that fails while loading the remotes leaves the
\* registry as it was before the call.
C16_FailedReloadKeepsRegistry ==
  [][\A self \in Repos :
       (ReloadStep(self) /\ last'.ret # "ok") => remotes' = remotes]_vars

----------------------------------------------------------------------------
(* Properties of the remote option getters (specification SpecOptions)     *)

\* self and the repos of its parent chain, nearest first
RECURSIVE ChainFrom(_)
ChainFrom(self) ==
  IF self = NULL THEN <<>> ELSE <<self>> \o ChainFrom(parent_repo[self])

\* The value of the key in the nearest repo of the chain whose remote
\* defines it: NoKey when none defines it, NoRemote when no repo of the
\* chain has the remote at all
InheritedOption(self, name) ==
  LET chain == ChainFrom(self)
      has == {i \in 1..Len(chain) : remotes[chain[i]][name] # NoRemote}
      defs == {i \in has : remote_options[chain[i]][name] # NoKey}
  IN  IF has = {} THEN NoRemote
      ELSE IF defs = {} THEN NoKey
      ELSE remote_options[chain[CHOOSE i \in defs : \A j \in defs : i <= j]][name]

\* C13: every getter answers with the value of the nearest repo on the
\* chain (self first) whose remote defines the key, with the default when
\* some repo of the chain has the remote and none defines the key, and with
\* not-found only when no repo of the chain has the remote.
C13_OptionInheritance ==
  (last.op = "get_remote_option" /\ ~_ostree_repo_remote_name_is_file(last.name)) =>
    LET want == InheritedOption(last.self, last.name)
    IN  /\ last.ret = "not_found" <=> want = NoRemote
        /\ (last.via = "string" /\ want \notin {NoRemote, NoKey}) =>
              (last.ret = "ok" /\ last.value = want)
        /\ (last.via = "string" /\ want = NoKey) =>
              (last.ret = "ok" /\ last.value = "default")
        /\ (last.via = "list" /\ want \notin {NoRemote, NoKey}) =>
              (last.ret = "ok" /\ last.value = <<want>>)
        /\ (last.via = "list" /\ want = NoKey) =>
              (last.ret = "ok" /\ last.value = "NULL")
        /\ (last.via = "boolean" /\ want \in {"true", "false"}) =>
              (last.ret = "ok" /\ last.value = (want = "true"))
        /\ (last.via = "boolean" /\ want = NoKey) => last.ret = "ok"

\* C13 witness: the child has the remote without the key, its parent does
\* not have the remote, and the getter found the grandparent's value.
C13_Witness ==
  /\ last.op = "get_remote_option" /\ last.via = "string" /\ last.self = "A"
  /\ last.name = OptionName
  /\ remotes["A"][OptionName] # NoRemote /\ remote_options["A"][OptionName] = NoKey
  /\ remotes["B"][OptionName] = NoRemote
  /\ remote_options["C"][OptionName] = "u1"
  /\ last.ret = "ok" /\ last.value = "u1"

----------------------------------------------------------------------------
(* Properties of open, create and reload (specification SpecOpen)          *)

OpenStep(self) ==
  last'.op = "open" /\ last' # last /\ last'.self = self

\* The state of the handle: mode, config, parent, remotes registry,
\* descriptors and writability
HandleState(self) ==
  <<inited[self], mode[self], config[self], parent_repo[self], remotes[self],
    remote_options[self], dir_fds[self], writable[self], writable_error[self]>>

\* C17: an open of a handle that is already initialized returns success and
\* leaves the handle's mode, config, parent, remotes registry, descriptors
\* and writability as they were, whatever the repo directory holds by then.
C17_OpenIsIdempotent ==
  [][\A self \in Repos :
       (OpenStep(self) /\ inited[self])
         => /\ last'.ret = "ok"
            /\ HandleState(self)' = HandleState(self)
            /\ disk' = disk]_vars

\* C17 witness: the second open was made after the config file, the
\* permissions of objects/ and remotes.d had changed under the handle.
C17_Witness ==
  /\ last.op = "open" /\ last.ret = "ok" /\ last.via = "inited"
  /\ inited[last.self]
  /\ disk[last.self].config # config[last.self]
  /\ disk[last.self].objects_writable # writable[last.self]
  /\ remotes_d[last.self] # {}
  /\ remotes[last.self][<<97>>] = IN_CONFIG

CreateStep(self) ==
  last'.op = "create" /\ last' # last /\ last'.self = self

\* The mode a handle opened on the config file reports
ModeOfFile(file) ==
  ostree_repo_mode_from_string(IF file.mode = NoKey THEN "bare" ELSE file.mode)

\* The config file names a mode and an absent, empty or openable parent
\* repo, and no remote of the repo is defined by two sources
Loadable(self, file) ==
  /\ ModeOfFile(file).ret = "ok"
  /\ file.parent \in {NoKey, ""} \cup Repos
  /\ \A n \in RemoteNames : Cardinality(Sources(self, n)) <= 1

\* What C18 says of a create with the mode last'.value on the handle self
\* that no open has initialized: over a config file with mode M1 the config
\* is left as it is and the handle reports M1; in a directory without a
\* config file the handle, and a handle opened on the config file written,
\* report the mode asked for; the state directories are all there.
CreateResult(self) ==
  LET before == disk[self].config
  IN  /\ StateDirs \subseteq disk'[self].dirs
      /\ inited'[self]
      /\ before.present
           => /\ disk'[self].config = before
              /\ mode'[self] = ModeOfFile(before).mode
      /\ ~before.present
           => /\ mode'[self] = last'.value
              /\ ModeOfFile(disk'[self].config) = [ret |-> "ok", mode |-> last'.value]

IsWritableStep(self) ==
  last'.op = "is_writable" /\ last' # last /\ last'.self = self

\* The repo directory has what open needs of it: objects/, tmp/ and a
\* config file that loads
Complete(self) ==
  /\ {RepoDir, "objects", "tmp"} \subseteq disk[self].dirs
  /\ disk[self].config.present
  /\ Loadable(self, disk[self].config)

\* The object is in objects/ of the repo (the parent repos hold none)
Stored(self) ==
  _ostree_loose_path(obj[2], obj[1], mode[self]) \in objects_dir[self]

C20_ReloadResetsParent ==
  [][\A self \in Repos :
       (ReloadStep(self) /\ last'.ret = "ok")
         => ostree_repo_get_parent(self)'
              = (IF disk[self].config.parent \in {NoKey, ""} THEN NULL
                 ELSE disk[self].config.parent)]_vars

----------------------------------------------------------------------------
(* Properties of the dirmeta cache (specification SpecCache)               *)

\* C21: whenever no thread is inside a critical section of the cache
\* mutex, the dirmeta cache exists exactly if the refcount is greater than
\* zero and the refcount is the number of references initialized and not
\* destroyed; the refcount is never negative; and a step that adds an entry
\* to the cache is made while the cache exists and leaves it existing.
C21_DirmetaCacheLifetime ==
  [][/\ cache_lock' = NULL
       => /\ ~dirmeta_cache'.is_null <=> dirmeta_cache_refcount' > 0
          /\ dirmeta_cache_refcount' = Cardinality(cache_refs')
     /\ dirmeta_cache_refcount' >= 0
     /\ dirmeta_cache'.table # dirmeta_cache.table /\ dirmeta_cache'.table # {}
       => ~dirmeta_cache.is_null /\ ~dirmeta_cache'.is_null]_vars

\* C21 witness: a load has put the object into the cache while two
\* references are held, and another thread is dropping one of them.
C21_Witness ==
  /\ dirmeta_cache.table = {CsumReg}
  /\ dirmeta_cache_refcount = 1
  /\ Cardinality(cache_refs) = 2
  /\ \E t \in Threads : threads[t].pc = "destroy_clear"
  /\ last.op = "load_variant" /\ last.via = "objects"

\* C22: whenever a call of _ostree_repo_allocate_tmpdir has returned a
\* directory to a process, the lock of that directory is held by that
\* process, and no two processes have been given the same directory
Holding(p) == procs[p].pc = "held"
C22_StagingDirsExclusive ==
  /\ \A p \in Procs : Holding(p) => lock_holder[procs[p].name] = p
                                    /\ procs[p].name \in tmp_dirs
  /\ \A p, q \in Procs : Holding(p) /\ Holding(q) /\ p # q
                           => procs[p].name # procs[q].name
\* Two processes hold directories at once, one of them a directory it
\* reused, while a third lost the race for the directory it created
C22_Witness ==
  \E p, q, r \in Procs :
    /\ Holding(p) /\ procs[p].reusing_dir
    /\ Holding(q) /\ p # q
    /\ procs[r].pc = "lock_new" /\ lock_holder[procs[r].name] \notin {NULL, r}

\* C23: whenever the metadata object is in neither the staging directory
\* nor objects/ of a repo nor of any of its ancestors,
\* ostree_repo_load_variant_if_exists on that repo returns success with no
\* variant, for a repo with a parent as for one without
C23_IfExistsOfMissingSucceeds ==
  \A self \in Repos :
    IS_META(obj[1]) /\ ~has_object(self, obj[1], obj[2])
      => ostree_repo_load_variant_if_exists(self, obj[1], obj[2]).ret = "ok_null"

\* C24: a successful ostree_repo_add_gpg_signature_summary with the key
\* IDs k1..kn leaves in summary.sig the signatures it held before followed
\* by one new signature over the summary for every key ID
NewSignatures(keys, data) == [i \in 1..Len(keys) |-> Signature(keys[i], data)]
C24_SummarySignedByEveryKey ==
  [][sign_last'.op = "add_gpg_signature_summary" /\ sign_last'.ret = "ok"
       => summary_sig'.gpgsigs
            = summary_sig.gpgsigs \o NewSignatures(sign_last'.keys, summary.gen)]_vars

\* C25: ostree_repo_sign_commit on a stored commit whose detached metadata
\* has a signature by the key ID fails with "exists" and leaves the
\* detached metadata as it was; a sign_commit that succeeds leaves
\* ostree.gpgsigs as it was with one signature by the key ID appended
SignedBy(metadata, key_id) ==
  \E i \in 1..Len(metadata.gpgsigs) : metadata.gpgsigs[i].key = key_id
SignCommitStep ==
  sign_last'.op = "sign_commit" /\ (sign_last' # sign_last \/ commitmeta' # commitmeta)
C25_SignCommitNeverDuplicates ==
  [][SignCommitStep
       => LET key_id == sign_last'.keys[1]
          IN  /\ SignedBy(commitmeta, key_id) /\ has_object("A", COMMIT, obj[2])
                   => /\ sign_last'.ret = "exists"
                      /\ commitmeta' = commitmeta
                      /\ objects_dir' = objects_dir
              /\ ~SignedBy(commitmeta, key_id) /\ sign_last'.ret = "ok"
                   => /\ commitmeta'.gpgsigs
                           = Append(commitmeta.gpgsigs, Signature(key_id, obj[2]))
                      /\ read_commit_detached_metadata("A", obj[2])'.ret = "ok"
              /\ \A k \in KeyIds :
                   Cardinality({i \in 1..Len(commitmeta'.gpgsigs) :
                                  commitmeta'.gpgsigs[i].key = k}) <= 1]_vars
\* The commit was signed by two keys and signing it again by one of them
\* was refused
C25_Witness ==
  /\ sign_last.op = "sign_commit" /\ sign_last.ret = "exists"
  /\ Len(commitmeta.gpgsigs) = 2

\* C26: in the summary written by ostree_repo_regenerate_summary the refs
\* array is strictly increasing in ref name and has no ref with a remote
\* name, the collection map is strictly increasing in collection ID and
\* the refs of each collection are strictly increasing; a repo with a
\* collection ID has its own refs in the refs array and only the refs of
\* other collections in the collection map
StrictlyIncreasing(list) == \A i \in 1..(Len(list) - 1) : strcmp(list[i], list[i + 1]) < 0
Elements(list) == {list[i] : i \in 1..Len(list)}
C26_SummaryOrdering ==
  summary.present =>
    LET own == ref_store.collection_id
        collection_refs == ostree_repo_list_collection_refs("A")
        ids == [i \in 1..Len(summary.collection_map) |-> summary.collection_map[i].collection_id]
    IN  /\ StrictlyIncreasing(summary.refs)
        /\ \A ref \in Elements(summary.refs) : \A i \in 1..Len(ref) : ref[i] # 58
        /\ StrictlyIncreasing(ids)
        /\ \A entry \in Elements(summary.collection_map) :
             /\ StrictlyIncreasing(entry.refs)
             /\ Elements(entry.refs) = {cr[2] : cr \in {c \in collection_refs :
                                                        c[1] = entry.collection_id}}
        /\ Elements(ids) = {cr[1] : cr \in collection_refs} \ {own}
        /\ Elements(summary.refs) =
             IF own = NoCollectionId THEN ref_store.heads
             ELSE {cr[2] : cr \in {c \in collection_refs : c[1] = own}}
\* A repo with a collection ID whose summary has two refs of its own and
\* two refs of another collection
C26_Witness ==
  /\ summary.present /\ ref_store.collection_id # NoCollectionId
  /\ Len(summary.refs) = 2
  /\ \E entry \in Elements(summary.collection_map) : Len(entry.refs) = 2
  /\ ref_store.remotes # {}

ParentKey(path) ==
  IF path \in Repos /\ disk[path].config.parent \notin {NoKey, ""}
  THEN disk[path].config.parent ELSE NULL
RECURSIVE KeysFrom(_, _)
KeysFrom(path, n) ==
  IF n = 0 \/ ParentKey(path) = NULL THEN <<path>>
  ELSE <<path>> \o KeysFrom(ParentKey(path), n - 1)
ParentCycle(path) == Len(KeysFrom(path, Cardinality(Repos))) > Cardinality(Repos)
C28_ParentCycleFailsOpen ==
  /\ po.pc \in {"returned", "crashed"} /\ ParentCycle(po.chain[1])
       => po.pc = "returned" /\ po.ret # "ok"
  /\ po.pc = "returned" /\ po.ret = "ok"
       => /\ \A i, j \in 1..Len(po.chain) : i # j => po.chain[i] # po.chain[j]
          /\ ParentKey(po.chain[Len(po.chain)]) = NULL

\* C29: for a name that begins with file://, in every repo and whatever
\* remotes the repo and its parents have, ostree_repo_remote_get_url
\* returns the name, ostree_repo_remote_get_gpg_verify and
\* ostree_repo_remote_get_gpg_verify_summary return FALSE and the option
\* getters return the default they were given, all with success
FileNames == {FileRemoteName, FilePrefix}
C29_FileNameBypassesRegistry ==
  /\ \A self \in Repos, name \in FileNames :
       /\ ostree_repo_remote_get_url(self, name) = OptionResult("ok", name)
       /\ ostree_repo_remote_get_gpg_verify(self, name) = OptionResult("ok", FALSE)
       /\ ostree_repo_remote_get_gpg_verify_summary(self, name) = OptionResult("ok", FALSE)
       /\ ostree_repo_get_remote_option(self, name, "default") = OptionResult("ok", "default")
       /\ ostree_repo_get_remote_list_option(self, name) = OptionResult("ok", "NULL")
       /\ \A default \in BOOLEAN :
            ostree_repo_get_remote_boolean_option(self, name, default)
              = OptionResult("ok", default)
  /\ last.op \in {"remote_get", "get_remote_option"}
       /\ _ostree_repo_remote_name_is_file(last.name) => last.ret = "ok"
\* The GPG option of "file://x" was asked of a repo that has a remote with
\* gpg-verify "true" and a parent
C29_Witness ==
  /\ last.op = "remote_get" /\ last.via = "gpg_verify" /\ last.name = FileRemoteName
  /\ last.ret = "ok" /\ last.value = FALSE
  /\ remote_options[last.self][OptionName] = "true"
  /\ parent_repo[last.self] # NULL

\* C30: a verification for a named remote fails with not-found exactly
\* when no repo of the chain from self has the remote.  A verification
\* that goes on to the signature check was given the deprecated global
\* keyring directory exactly when it is not the case that it is for a
\* named remote whose keyring file exists next to a repo of the chain or
\* in the remotes.d of one: with the all-remotes pointer, with no remote
\* name, and for a named remote without keyring file, with or without
\* gpgkeypath, the global directory is added.
ReposFrom(self) == {ChainFrom(self)[i] : i \in 1..Len(ChainFrom(self))}
KeyringFound(self, name) ==
  \E r \in ReposFrom(self) :
    \/ name \in keyrings[r].repodir
    \/ remotes_d_dir[r] /\ name \in keyrings[r].remotes_d
C30_KeyringSelection ==
  last.op = "gpg_verify" =>
    /\ last.ret = "not_found"
         <=> /\ last.via = "named"
             /\ \A r \in ReposFrom(last.self) : remotes[r][last.name] = NoRemote
    /\ last.ret = "ok" =>
         (last.value.global_keyring_dir
            <=> ~(last.via = "named" /\ KeyringFound(last.self, last.name)))
\* A verification from A for the remote "a", which only A has and with a
\* gpgkeypath, found the keyring file in the remotes.d of C, and the
\* global keyring directory was left out
C30_Witness ==
  /\ last.op = "gpg_verify" /\ last.via = "named" /\ last.self = "A"
  /\ last.ret = "ok" /\ ~last.value.global_keyring_dir
  /\ last.value.keyrings = {KeyringFile("C", "remotes_d")}
  /\ last.value.key_ascii_file = "/k.asc"
  /\ remotes["B"][OptionName] = NoRemote /\ remotes["C"][OptionName] = NoRemote

\* C31: a call of add_remotes_from_keyfile on a key file one of whose
\* groups names a remote already in the registry returns the error and
\* leaves the registry and the options of its remotes as they were when
\* the call began; a call on a key file none of whose groups is in the
\* registry succeeds, and the registry then is the one from before the
\* call with every group of the key file added.  No thread that lists the
\* remotes does so while a call has added some but not all of the groups
\* of its key file.
Range(seq) == {seq[i] : i \in 1..Len(seq)}
KeyfileReturns(t) ==
  rt[t].op = "keyfile" /\ rt[t].pc = "out" /\ rt'[t] = NoOp
PartlyAdded(t) ==
  rt[t].op = "keyfile" /\ rt[t].added # {} /\ rt[t].added # Range(rt[t].groups)
C31_KeyfileIngestAtomic ==
  [][/\ \A t \in Threads :
          KeyfileReturns(t) =>
            IF \E n \in Range(rt[t].groups) : rt[t].before[n] # NoRemote
            THEN /\ last'.ret = "multiple"
                 /\ remotes'["A"] = rt[t].before
                 /\ \A n \in Range(rt[t].groups) :
                      rt[t].before[n] = NoRemote => remote_options'["A"][n] = NoKey
            ELSE /\ last'.ret = "ok"
                 /\ remotes'["A"] = [n \in RemoteNames |->
                                       IF n \in Range(rt[t].groups) THEN rt[t].where
                                       ELSE rt[t].before[n]]
     /\ (last'.op = "list_keys" /\ last' # last)
          => \A t \in Threads : ~PartlyAdded(t)]_vars
\* A key file of three groups, the first of them new and a later one
\* already a remote, was refused
C31_Witness ==
  /\ last.op = "add_remotes_from_keyfile" /\ last.ret = "multiple"
  /\ Len(last.value) = 3
  /\ remotes["A"][last.value[1]] = NoRemote
  /\ \E i \in 2..3 : remotes["A"][last.value[i]] = IN_CONFIG

\* C32: for every trust flag and every answer of linkat, an import from C
\* into A ends on the hardlink path (linked, or EEXIST taken as success)
\* only when the caller trusts the source, the two repos have the same
\* owner uid, and the modes are equal, or the object is metadata, or it is
\* a FILE that is a regular file going from bare-user to bare-user-only.
\* When those conditions hold, EEXIST from linkat is success with nothing
\* written, EMLINK, EXDEV and EPERM give what the copy path gives, and any
\* other error of linkat is the result of the import and nothing is
\* written.  When they do not hold, the import is what the copy path gives.
LinkEligible(self, source, objtype, checksum, trusted) ==
  /\ trusted
  /\ owner_uid[source] = owner_uid[self]
  /\ \/ mode[source] = mode[self]
     \/ IS_META(objtype)
     \/ /\ objtype = FILE
        /\ mode[source] = MODE_BARE_USER /\ mode[self] = MODE_BARE_USER_ONLY
        /\ load_file_bare(source, checksum).ret = "ok"
        /\ FileType(checksum) = S_IFREG
C32_ImportPathSelection ==
  \A trusted \in BOOLEAN, linkerr \in AllLinkErrs :
    LET out == import_outcome("A", "C", obj[1], obj[2], trusted, linkerr)
        copy == import_copy("A", "C", obj[1], obj[2])
        err == linkat("A", "C", _ostree_loose_path(obj[2], obj[1], mode["A"]), linkerr)
    IN  /\ out.via \in {"linked", "eexist"}
          => LinkEligible("A", "C", obj[1], obj[2], trusted)
        /\ LinkEligible("A", "C", obj[1], obj[2], trusted) =>
             /\ err = "none" => out.ret = "ok" /\ out.via = "linked"
             /\ err = "EEXIST" => out = Outcome("ok", "eexist", {}, {})
             /\ err \in {"EMLINK", "EXDEV", "EPERM"} => out = copy
             /\ err \notin {"none", "EEXIST", "EMLINK", "EXDEV", "EPERM"}
                  => out = Outcome(err, "error", {}, {})
        /\ (~trusted \/ owner_uid["A"] # owner_uid["C"]) => out = copy
\* A trusted import between two repos of one owner and one mode met an
\* error of linkat other than the four, failed with it, and the
\* destination does not have the object though the source could be read
C32_Witness ==
  /\ last.op = "import" /\ last.trusted /\ last.ret = "EIO"
  /\ owner_uid[last.self] = owner_uid[last.source]
  /\ mode[last.self] = mode[last.source]
  /\ ~has_object(last.self, last.objtype, last.checksum)
  /\ Load(last.source, last.objtype, last.checksum).ret = "ok"

\* C33 as stated: a process creates a directory in tmp/ only when every
\* directory that is in tmp/ at that moment is locked by another process,
\* or tmp/ has none.
Creates(p) == procs[p].pc = "mkdtemp" /\ procs'[p].pc = "lock_new"
C33_ReuseBeforeCreate ==
  [][\A p \in Procs :
       Creates(p) => \A d \in tmp_dirs : lock_holder[d] \notin {NULL, p}]_vars
\* C33: a call returns with reusing_dir = TRUE only with a directory that
\* was in tmp/ and whose lock nobody held when the call took it, and that
\* step creates nothing; a call returns with reusing_dir = FALSE only with
\* the directory it created itself.  The first loop skips a directory only
\* when another process holds its lock at the moment the lock is tried,
\* and the call goes on to create a directory only after it has tried every
\* directory that was in tmp/ when the call began.
C33_ReuseBeforeCreateWhenTried ==
  [][\A p \in Procs :
       /\ (procs[p].pc = "iterate" /\ procs'[p].pc = "held")
            => /\ procs'[p].reusing_dir
               /\ procs'[p].name \in tmp_dirs
               /\ lock_holder[procs'[p].name] = NULL
               /\ tmp_dirs' = tmp_dirs
       /\ (procs[p].pc # "held" /\ procs'[p].pc = "held" /\ ~procs'[p].reusing_dir)
            => procs[p].pc = "lock_new" /\ procs'[p].name = procs[p].name
       /\ (procs[p].pc = "iterate" /\ procs'[p].pc = "iterate")
            => \A d \in procs'[p].visited \ procs[p].visited :
                 lock_holder[d] \notin {NULL, p}
       /\ (procs[p].pc = "iterate" /\ procs'[p].pc = "mkdtemp")
            => (procs[p].snapshot \cap tmp_dirs) \subseteq procs[p].visited]_vars
\* A process has left the first loop with every directory found busy and
\* is about to create a directory, while the lock of a directory in tmp/
\* has become free
C33_Witness ==
  \E p \in Procs :
    /\ procs[p].pc = "mkdtemp"
    /\ \E d \in tmp_dirs : lock_holder[d] = NULL

\* C34: every call of _ostree_repo_allocate_tmpdir that has begun returns
\* in the end, holding the lock of the directory it returns; a call that
\* does not get the lock of the directory it has created goes back to
\* create another directory, and a call returns only in the step in which
\* it takes the lock of its directory.
InCall(p) == procs[p].pc \in {"iterate", "mkdtemp", "lock_new"}
ReloadSucceeds(self) ==
  /\ last'.op = "reload_config" /\ last'.self = self /\ last'.ret = "ok"
  /\ inited[self] /\ disk' = disk
  /\ config'[self] = disk[self].config
C35_ReloadResetsFsync ==
  [][ReloadSucceeds("A") =>
       /\ disable_fsync'["A"] = (disk["A"].config.fsync = "false")
       /\ _ostree_repo_file_replace_contents("A")' =
            IF disk["A"].config.fsync = "false" THEN "GLNX_FILE_REPLACE_NODATASYNC"
            ELSE "GLNX_FILE_REPLACE_DATASYNC_NEW"]_vars

\* C36: a load of a dirmeta object that is answered from the dirmeta
\* cache succeeds only if has_object is true for the object at that
\* moment; a load after delete_object does not return the deleted object.
C36_CachedLoadAgreesWithStore ==
  [][(last'.op = "load_variant" /\ last' # last
      /\ last'.ret = "ok" /\ last'.via = "cache")
       => has_object(last'.self, DIR_META, last'.checksum)]_vars

\* C37: when two threads have each made a call of remote add (not
\* add-if-not-exists) with the same name on a handle that did not have the
\* remote, exactly one of the calls returned success and the other failed
\* with 'already exists', and the registry and the persisted group of the
\* remote hold the url of the call that succeeded.
AddReturned(t, name) ==
  /\ rt[t].op = "add" /\ rt[t].pc = "returned"
  /\ rt[t].name = name /\ ~rt[t].if_not_exists
C37_ConcurrentAddOneWins ==
  \A name \in AddNames :
    (AddReturned("t1", name) /\ AddReturned("t2", name))
      => \E won, lost \in Threads :
           /\ won # lost
           /\ rt[won].ret = "ok" /\ rt[lost].ret = "exists"
           /\ remote_options["A"][name] = rt[won].url
           /\ group_options["A"][rt[won].where][name] = rt[won].url

\* C38: after every remote add or delete call on the handle of repo A,
\* whether it succeeded or failed, the names in the registry are the
\* names of the remote groups persisted in the config, in remotes.d and in
\* the several-group file.
RegistryNames(self) == {n \in RemoteNames : remotes[self][n] # NoRemote}
PersistedNames(self) == config_remotes[self] \cup remotes_d[self] \cup DropinGroups(self)
C38_RegistryAgreesWithPersisted ==
  last.op \in {"remote_add", "remote_delete"}
    => RegistryNames("A") = PersistedNames("A")

\* C39: a trusted import into A of an object that the source C has
\* (has_object of the source is true, be the object in the source's
\* objects/, in its staging directory or in an ancestor) and that A does
\* not have, succeeds whenever linkat meets no error or one of the three
\* that mean "cannot hardlink here".
ImportOf(trusted, linkerr) ==
  import_object_from_with_trust("A", "C", obj[1], obj[2], trusted, linkerr)
C39_ImportFollowsLookupCascade ==
  [][\A linkerr \in LinkErrs :
       (/\ ImportOf(TRUE, linkerr)
        /\ has_object("C", obj[1], obj[2])
        /\ ~has_object("A", obj[1], obj[2]))
         => last'.ret = "ok"]_vars

\* C40: every object that list_objects (LOOSE, parents included) returns
\* satisfies has_object, and every FILE, DIR_TREE, DIR_META and COMMIT
\* object for which has_object is true is returned, whatever the depth of
\* the chain of parents; with NO_PARENTS the objects of the repo's own
\* objects/ are returned and no other; and
\* list_commit_objects_starting_with returns only COMMIT objects whose
\* checksum starts with the prefix given.
CoreTypes == {FILE, DIR_TREE, DIR_META, COMMIT}
OwnObjects(self) ==
  {k \in Checksums \X CoreTypes :
     InObjects(self, _ostree_loose_path(k[1], k[2], mode[self]))}
C40_EnumerationAgreesWithExistence ==
  [][/\ (\E flags \in {{"LOOSE"}, {"ALL"}, {"LOOSE", "ALL"}} : list_objects_call("A", flags))
          => /\ \A k \in last'.value.listed : has_object("A", k[2], k[1])
             /\ \A k \in Checksums \X CoreTypes :
                  has_object("A", k[2], k[1]) => k \in last'.value.listed
     /\ (\E flags \in ListFlags : "NO_PARENTS" \in flags /\ flags # {"NO_PARENTS"}
                                  /\ list_objects_call("A", flags))
          => last'.value.listed = OwnObjects("A")
     /\ \A start \in Starts :
          list_commit_objects_starting_with_call("A", start)
            => \A k \in last'.value.listed :
                 k[2] = COMMIT /\ g_str_has_prefix(ChecksumChars(k[1]), start)
    ]_vars
====
